---------------------------- MODULE Spec2Model ----------------------------
(***************************************************************************)
(* A model of the rtiow ray tracer: intervals, bounding boxes, primitive   *)
(* intersection, the BVH, the scene loader and its registry, ray_color,    *)
(* write_color and Camera::render.                                         *)
(*                                                                         *)
(* f64 values are modelled as exact extended rationals <<n, d>>: d > 0 is  *)
(* the finite number n/d in lowest terms, <<1,0>> is +inf, <<-1,0>> is     *)
(* -inf and <<0,0>> is NaN.  Rounding is not modelled; the IEEE rules for  *)
(* infinities, NaN and comparisons with NaN are.                           *)
(***************************************************************************)
EXTENDS Integers, Sequences, FiniteSets, TLC

(***************************************************************************)
(* Extended rational arithmetic (the f64 operations the code uses).        *)
(***************************************************************************)
Abs(n) == IF n < 0 THEN -n ELSE n

Sign(n) == IF n < 0 THEN -1 ELSE IF n > 0 THEN 1 ELSE 0

RECURSIVE GCD(_, _)
GCD(a, b) == IF b = 0 THEN a ELSE GCD(b, a % b)

\* n/d with the common factor g taken out, the sign carried by the numerator
Reduced(n, d, g) == <<(Sign(d) * n) \div g, Abs(d) \div g>>

Q(n, d) ==
    IF d = 0 THEN <<Sign(n), 0>>
    ELSE Reduced(n, d, GCD(Abs(n), Abs(d)))

I(n) == <<n, 1>>

QNaN == <<0, 0>>
PInf == <<1, 0>>
NInf == <<-1, 0>>
Zero == <<0, 1>>
One == <<1, 1>>

IsNaN(x) == x = QNaN
IsFin(x) == x[2] # 0

QNeg(x) == <<-x[1], x[2]>>

\* the sum of two finite values whose denominators have the common factor g
QAddOver(x, y, g) ==
    Q(x[1] * (y[2] \div g) + y[1] * (x[2] \div g), x[2] * (y[2] \div g))

QAdd(x, y) ==
    IF IsFin(x) /\ IsFin(y)
    THEN QAddOver(x, y, GCD(x[2], y[2]))
    ELSE IF IsNaN(x) \/ IsNaN(y) THEN QNaN
    ELSE IF ~IsFin(x) /\ ~IsFin(y) THEN (IF x = y THEN x ELSE QNaN)
    ELSE IF ~IsFin(x) THEN x ELSE y

QSub(x, y) == QAdd(x, QNeg(y))

\* the product of two finite values, cross factors g1 and g2 taken out first
QMulOver(x, y, g1, g2) ==
    Q((x[1] \div g1) * (y[1] \div g2), (x[2] \div g2) * (y[2] \div g1))

QMul(x, y) ==
    IF IsFin(x) /\ IsFin(y)
    THEN QMulOver(x, y, GCD(Abs(x[1]), y[2]), GCD(Abs(y[1]), x[2]))
    ELSE <<Sign(x[1] * y[1]), 0>>

\* 1.0 / x for a zero of positive sign: +inf
QInv(x) ==
    IF IsNaN(x) THEN QNaN
    ELSE IF ~IsFin(x) THEN Zero
    ELSE IF x[1] = 0 THEN PInf
    ELSE Q(x[2], x[1])

QDiv(x, y) == QMul(x, QInv(y))

QLtOver(x, y, g) == x[1] * (y[2] \div g) < y[1] * (x[2] \div g)

\* x < y on f64: false when either side is NaN
QLt(x, y) ==
    IF IsNaN(x) \/ IsNaN(y) \/ x = y THEN FALSE
    ELSE IF x = NInf \/ y = PInf THEN TRUE
    ELSE IF x = PInf \/ y = NInf THEN FALSE
    ELSE QLtOver(x, y, GCD(x[2], y[2]))

QLe(x, y) == ~IsNaN(x) /\ ~IsNaN(y) /\ (x = y \/ QLt(x, y))

QAbs(x) == <<Abs(x[1]), x[2]>>

\* f64::min and f64::max: the other operand when one is NaN
QMin(x, y) == IF IsNaN(x) THEN y ELSE IF IsNaN(y) THEN x ELSE IF QLt(y, x) THEN y ELSE x
QMax(x, y) == IF IsNaN(x) THEN y ELSE IF IsNaN(y) THEN x ELSE IF QLt(x, y) THEN y ELSE x

RECURSIVE ISqrtBetween(_, _, _)
ISqrtAround(n, lo, hi, mid) ==
    IF mid <= 46340 /\ mid * mid <= n
    THEN ISqrtBetween(n, mid, hi)
    ELSE ISqrtBetween(n, lo, mid - 1)

ISqrtBetween(n, lo, hi) ==
    \* the largest k in lo..hi with k*k <= n, given lo*lo <= n
    IF lo >= hi THEN lo
    ELSE ISqrtAround(n, lo, hi, (lo + hi + 1) \div 2)

ISqrt(n) == ISqrtBetween(n, 0, IF n < 46340 THEN n ELSE 46340)

IsSquare(n) == n >= 0 /\ ISqrt(n) * ISqrt(n) = n

\* the values whose f64::sqrt the model represents exactly
HasSqrt(x) ==
    \/ ~IsFin(x)
    \/ x[1] < 0
    \/ IsSquare(x[1]) /\ IsSquare(x[2])

QSqrt(x) ==
    IF IsNaN(x) \/ x = NInf THEN QNaN
    ELSE IF x = PInf THEN PInf
    ELSE IF x[1] < 0 THEN QNaN
    ELSE <<ISqrt(x[1]), ISqrt(x[2])>>

(***************************************************************************)
(* vec.rs: Vec3 as a triple of numbers, indexed by axis 1 (X), 2 (Y), 3 (Z)*)
(***************************************************************************)
Axes == {1, 2, 3}

Vec3_new(x, y, z) == <<x, y, z>>

V(x, y, z) == <<I(x), I(y), I(z)>>

Vec3_ZERO == V(0, 0, 0)

VAdd(a, b) == <<QAdd(a[1], b[1]), QAdd(a[2], b[2]), QAdd(a[3], b[3])>>

VSub(a, b) == <<QSub(a[1], b[1]), QSub(a[2], b[2]), QSub(a[3], b[3])>>

VScale(v, s) == <<QMul(v[1], s), QMul(v[2], s), QMul(v[3], s)>>

VNeg(v) == <<QNeg(v[1]), QNeg(v[2]), QNeg(v[3])>>

\* Div<f64>: (1.0 / rhs) * self
VDiv(v, s) == VScale(v, QInv(s))

dot(a, b) == QAdd(QAdd(QMul(a[1], b[1]), QMul(a[2], b[2])), QMul(a[3], b[3]))

cross(a, b) ==
    << QSub(QMul(a[2], b[3]), QMul(a[3], b[2])),
       QSub(QMul(a[3], b[1]), QMul(a[1], b[3])),
       QSub(QMul(a[1], b[2]), QMul(a[2], b[1])) >>

length_squared(v) == dot(v, v)

length(v) == QSqrt(length_squared(v))

unit_vector(v) == VDiv(v, length(v))


(***************************************************************************)
(* interval.rs                                                             *)
(***************************************************************************)
Interval_new(min, max) == [min |-> min, max |-> max]

Interval_EMPTY == Interval_new(PInf, NInf)

Interval_UNIVERSE == Interval_new(NInf, PInf)

Interval_from_intervals(a, b) ==
    Interval_new(IF QLe(a.min, b.min) THEN a.min ELSE b.min,
                 IF QLe(b.max, a.max) THEN a.max ELSE b.max)

Interval_size(i) == QSub(i.max, i.min)

Interval_contains(i, x) == QLe(i.min, x) /\ QLe(x, i.max)

\* surrounds with the endpoints let in
Interval_surrounds_closed(i, x) == QLe(i.min, x) /\ QLe(x, i.max)

Interval_surrounds(i, x) == QLt(i.min, x) /\ QLt(x, i.max)

Interval_clamp(i, x) ==
    IF QLt(x, i.min) THEN i.min
    ELSE IF QLt(i.max, x) THEN i.max
    ELSE x

Interval_padded(i, padding) == Interval_new(QSub(i.min, padding), QAdd(i.max, padding))

Interval_expand(i, delta) == Interval_padded(i, QDiv(delta, I(2)))

(***************************************************************************)
(* ray.rs.  negz is the set of axes on which the direction is the f64      *)
(* -0.0 rather than +0.0 (the two differ only in 1.0 / x).                 *)
(***************************************************************************)
Ray_new_with_time(origin, direction, time) ==
    [orig |-> origin, dir |-> direction, tm |-> time, negz |-> {}]

Ray_new(origin, direction) == Ray_new_with_time(origin, direction, Zero)

Ray_at(r, t) == VAdd(r.orig, VScale(r.dir, t))

(***************************************************************************)
(* aabb.rs                                                                 *)
(***************************************************************************)
\* let delta = 0.0001
PadDelta == Q(1, 10000)

pad_to_minimums_unpadded(interval) == interval

pad_to_minimums(interval) ==
    IF QLt(Interval_size(interval), PadDelta)
    THEN Interval_expand(interval, PadDelta)
    ELSE interval

AABB_new(x, y, z) ==
    [x |-> pad_to_minimums(x), y |-> pad_to_minimums(y), z |-> pad_to_minimums(z)]

AABB_EMPTY == AABB_new(Interval_EMPTY, Interval_EMPTY, Interval_EMPTY)

AABB_UNIVERSE == AABB_new(Interval_UNIVERSE, Interval_UNIVERSE, Interval_UNIVERSE)

\* #[derive(Default)]: three Interval::default(), each Interval::EMPTY
AABB_default == [x |-> Interval_EMPTY, y |-> Interval_EMPTY, z |-> Interval_EMPTY]

AABB_from_points(a, b) ==
    [x |-> pad_to_minimums(Interval_new(QMin(a[1], b[1]), QMax(a[1], b[1]))),
     y |-> pad_to_minimums(Interval_new(QMin(a[2], b[2]), QMax(a[2], b[2]))),
     z |-> pad_to_minimums(Interval_new(QMin(a[3], b[3]), QMax(a[3], b[3])))]

AABB_from_boxes(box0, box1) ==
    [x |-> Interval_from_intervals(box0.x, box1.x),
     y |-> Interval_from_intervals(box0.y, box1.y),
     z |-> Interval_from_intervals(box0.z, box1.z)]

axis_interval(box, axis) ==
    IF axis = 1 THEN box.x ELSE IF axis = 2 THEN box.y ELSE box.z

\* 1.0 / ray_dir[axis]
AxisInv(r, axis) ==
    IF r.dir[axis] = Zero /\ axis \in r.negz THEN NInf ELSE QInv(r.dir[axis])

\* the interval narrowed to the slab [t0, t1] (or [t1, t0]) of one axis
AABB_hit_narrow(ray_t, t0, t1) ==
    IF QLt(t0, t1)
    THEN Interval_new(IF QLt(ray_t.min, t0) THEN t0 ELSE ray_t.min,
                      IF QLt(t1, ray_t.max) THEN t1 ELSE ray_t.max)
    ELSE Interval_new(IF QLt(ray_t.min, t1) THEN t1 ELSE ray_t.min,
                      IF QLt(t0, ray_t.max) THEN t0 ELSE ray_t.max)

AABB_hit_slab(ax, ray_orig, adinv, ray_t) ==
    AABB_hit_narrow(ray_t, QMul(QSub(ax.min, ray_orig), adinv),
                           QMul(QSub(ax.max, ray_orig), adinv))

\* one pass of the loop body of AABB::hit: the narrowed interval
AABB_hit_axis(box, r, ray_t, axis) ==
    AABB_hit_slab(axis_interval(box, axis), r.orig[axis], AxisInv(r, axis), ray_t)

RECURSIVE AABB_hit_from(_, _, _, _)
\* the end of the loop body: the test of the narrowed interval
AABB_hit_rest(box, r, narrowed, axis) ==
    IF QLe(narrowed.max, narrowed.min) THEN FALSE
    ELSE AABB_hit_from(box, r, narrowed, axis + 1)

AABB_hit_from(box, r, ray_t, axis) ==
    IF axis > 3 THEN TRUE
    ELSE AABB_hit_rest(box, r, AABB_hit_axis(box, r, ray_t, axis), axis)

AABB_hit(box, r, ray_t) == AABB_hit_from(box, r, ray_t, 1)

\* the comparisons of longest_axis as >= in place of >
longest_axis_ge(box) ==
    IF QLe(Interval_size(box.y), Interval_size(box.x))
    THEN (IF QLe(Interval_size(box.z), Interval_size(box.x)) THEN 1 ELSE 3)
    ELSE IF QLe(Interval_size(box.z), Interval_size(box.y)) THEN 2
    ELSE 3

longest_axis(box) ==
    IF QLt(Interval_size(box.y), Interval_size(box.x))
    THEN (IF QLt(Interval_size(box.z), Interval_size(box.x)) THEN 1 ELSE 3)
    ELSE IF QLt(Interval_size(box.z), Interval_size(box.y)) THEN 2
    ELSE 3

(***************************************************************************)
(* hittable.rs: HitRecord; Option<HitRecord> is <<>> (None) or <<rec>>.    *)
(***************************************************************************)
None == <<>>

Some(x) == <<x>>

IsSome(o) == o # <<>>

HitRecord_new(p, normal, mat, t) ==
    [p |-> p, normal |-> normal, mat |-> mat, t |-> t,
     u |-> Zero, v |-> Zero, front_face |-> FALSE]

set_face_normal_to(rec, outward_normal, front_face) ==
    [rec EXCEPT !.front_face = front_face,
                !.normal = IF front_face THEN outward_normal ELSE VNeg(outward_normal)]

set_face_normal(rec, r, outward_normal) ==
    set_face_normal_to(rec, outward_normal, QLt(dot(r.dir, outward_normal), Zero))

(***************************************************************************)
(* sphere.rs.  get_sphere_uv (acos, atan2) is not computed: a sphere's     *)
(* record carries u = v = "uv", the surface coordinate left abstract.      *)
(* The body of hit is split at its let bindings, each bound value passed   *)
(* on as a parameter.                                                      *)
(***************************************************************************)
\* AABB::from_points(c - rvec, c + rvec)
SphereBoxAround(c, rvec) == AABB_from_points(VSub(c, rvec), VAdd(c, rvec))

SphereBoxAt(center, radius, time) ==
    SphereBoxAround(Ray_at(center, time), <<radius, radius, radius>>)

SphereBox_first_only(center, radius) == SphereBoxAt(center, radius, Zero)

\* box1 at time 0, box2 at time 1, and their union
SphereBox(center, radius) ==
    AABB_from_boxes(SphereBoxAt(center, radius, Zero), SphereBoxAt(center, radius, One))

Sphere_moving(center, radius, mat) ==
    [kind |-> "sphere", center |-> center, radius |-> radius, mat |-> mat,
     bbox |-> SphereBox(center, radius)]

Sphere_new_moving(center_1, center_2, radius0, mat) ==
    Sphere_moving(Ray_new(center_1, VSub(center_2, center_1)), QMax(radius0, Zero), mat)

Sphere_static(static_center, radius, mat) ==
    [kind |-> "sphere", center |-> Ray_new(static_center, Vec3_ZERO),
     radius |-> radius, mat |-> mat,
     bbox |-> SphereBoxAround(static_center, <<radius, radius, radius>>)]

Sphere_new(static_center, radius0, mat) ==
    Sphere_static(static_center, QMax(radius0, Zero), mat)

\* h * h - a * c
Sphere_discriminant_of(a, h, c) == QSub(QMul(h, h), QMul(a, c))

Sphere_c(oc, radius) == QSub(length_squared(oc), QMul(radius, radius))

Sphere_discriminant_oc(s, r, oc) ==
    Sphere_discriminant_of(length_squared(r.dir), dot(r.dir, oc), Sphere_c(oc, s.radius))

Sphere_discriminant(s, r) ==
    Sphere_discriminant_oc(s, r, VSub(Ray_at(s.center, r.tm), r.orig))

Sphere_hit_record(s, r, t, p, outward_normal) ==
    Some([set_face_normal(HitRecord_new(p, outward_normal, s.mat, t), r, outward_normal)
            EXCEPT !.u = "uv", !.v = "uv"])

Sphere_hit_point(s, r, current_center, t, p) ==
    Sphere_hit_record(s, r, t, p, VDiv(VSub(p, current_center), s.radius))

Sphere_hit_at(s, r, current_center, t) ==
    Sphere_hit_point(s, r, current_center, t, Ray_at(r, t))

\* the nearest root that lies in the acceptable range
Sphere_hit_roots(s, r, ray_t, current_center, root1, root2) ==
    IF Interval_surrounds(ray_t, root1) THEN Sphere_hit_at(s, r, current_center, root1)
    ELSE IF Interval_surrounds(ray_t, root2) THEN Sphere_hit_at(s, r, current_center, root2)
    ELSE None

Sphere_hit_sqrtd(s, r, ray_t, current_center, a, h, sqrtd) ==
    Sphere_hit_roots(s, r, ray_t, current_center,
                     QDiv(QSub(h, sqrtd), a), QDiv(QAdd(h, sqrtd), a))

Sphere_hit_discriminant(s, r, ray_t, current_center, a, h, discriminant) ==
    IF discriminant[1] < 0 THEN None
    ELSE Sphere_hit_sqrtd(s, r, ray_t, current_center, a, h, QSqrt(discriminant))

Sphere_hit_coefficients(s, r, ray_t, current_center, a, h, c) ==
    Sphere_hit_discriminant(s, r, ray_t, current_center, a, h,
                            Sphere_discriminant_of(a, h, c))

Sphere_hit_oc(s, r, ray_t, current_center, oc) ==
    Sphere_hit_coefficients(s, r, ray_t, current_center,
                            length_squared(r.dir), dot(r.dir, oc), Sphere_c(oc, s.radius))

Sphere_hit_center(s, r, ray_t, current_center) ==
    Sphere_hit_oc(s, r, ray_t, current_center, VSub(current_center, r.orig))

Sphere_hit(s, r, ray_t) == Sphere_hit_center(s, r, ray_t, Ray_at(s.center, r.tm))

(***************************************************************************)
(* hittable/quad.rs                                                        *)
(***************************************************************************)
\* 1e-8, the parallel-ray threshold of Quad::hit
QuadParallelEps == Q(1, 100000000)

Quad_of(q, u, v, mat, w, normal) ==
    [kind |-> "quad", q |-> q, u |-> u, v |-> v, w |-> w, mat |-> mat,
     bbox |-> AABB_from_boxes(AABB_from_points(q, VAdd(q, VAdd(u, v))),
                              AABB_from_points(VAdd(q, u), VAdd(q, v))),
     normal |-> normal, d |-> dot(normal, q)]

Quad_new_n(q, u, v, mat, n) ==
    Quad_of(q, u, v, mat, VDiv(n, dot(n, n)), unit_vector(n))

Quad_new_normal_u(q, u, v, mat) == Quad_new_n(q, u, v, mat, u)

Quad_new(q, u, v, mat) == Quad_new_n(q, u, v, mat, cross(u, v))

is_interior(a, b) ==
    IF    ~Interval_contains(Interval_new(Zero, One), a)
       \/ ~Interval_contains(Interval_new(Zero, One), b)
    THEN None
    ELSE Some(<<a, b>>)

Quad_hit_uv(quad, r, t, intersection, uv) ==
    IF ~IsSome(uv) THEN None
    ELSE Some(set_face_normal(
                [HitRecord_new(intersection, quad.normal, quad.mat, t)
                    EXCEPT !.u = uv[1][1], !.v = uv[1][2]],
                r, quad.normal))

Quad_hit_planar(quad, r, t, intersection, planar_hitpt_vector) ==
    Quad_hit_uv(quad, r, t, intersection,
                is_interior(dot(quad.w, cross(planar_hitpt_vector, quad.v)),
                            dot(quad.w, cross(quad.u, planar_hitpt_vector))))

Quad_hit_intersection(quad, r, t, intersection) ==
    Quad_hit_planar(quad, r, t, intersection, VSub(intersection, quad.q))

Quad_hit_t(quad, r, ray_t, t) ==
    IF ~Interval_contains(ray_t, t) THEN None
    ELSE Quad_hit_intersection(quad, r, t, Ray_at(r, t))

Quad_hit_denom(quad, r, ray_t, denom) ==
    IF QLt(QAbs(denom), QuadParallelEps) THEN None
    ELSE Quad_hit_t(quad, r, ray_t,
                    QDiv(QSub(quad.d, dot(quad.normal, r.orig)), denom))

Quad_hit(quad, r, ray_t) == Quad_hit_denom(quad, r, ray_t, dot(quad.normal, r.dir))


(***************************************************************************)
(* hittable.rs (HittableList) and bvh.rs (BVHNode).  A primitive is a      *)
(* record tagged by kind: "sphere", "quad", "list" or "bvh".               *)
(***************************************************************************)
bounding_box(obj) == obj.bbox

RECURSIVE hit(_, _, _)

\* the loop of HittableList::hit from member i on
RECURSIVE HittableList_hit_from(_, _, _, _, _, _)
\* the loop body without the update of closest_so_far
HittableList_hit_step_wide(objects, r, ray_t, i, hit_anything, closest_so_far, rec) ==
    IF IsSome(rec)
    THEN HittableList_hit_from(objects, r, ray_t, i + 1, rec, closest_so_far)
    ELSE HittableList_hit_from(objects, r, ray_t, i + 1, hit_anything, closest_so_far)

\* the loop body once objects[i] has answered rec
HittableList_hit_step(objects, r, ray_t, i, hit_anything, closest_so_far, rec) ==
    IF IsSome(rec)
    THEN HittableList_hit_from(objects, r, ray_t, i + 1, rec, rec[1].t)
    ELSE HittableList_hit_from(objects, r, ray_t, i + 1, hit_anything, closest_so_far)

HittableList_hit_from(objects, r, ray_t, i, hit_anything, closest_so_far) ==
    IF i > Len(objects) THEN hit_anything
    ELSE HittableList_hit_step(objects, r, ray_t, i, hit_anything, closest_so_far,
            hit(objects[i], r, Interval_new(ray_t.min, closest_so_far)))

HittableList_hit(list, r, ray_t) ==
    HittableList_hit_from(list.objects, r, ray_t, 1, None, ray_t.max)

\* the match returning the farther of two hits
BVHNode_hit_match_far(hit_left, hit_right) ==
    IF IsSome(hit_left) /\ IsSome(hit_right)
    THEN (IF QLt(hit_right[1].t, hit_left[1].t) THEN hit_left ELSE hit_right)
    ELSE IF IsSome(hit_left) THEN hit_left
    ELSE IF IsSome(hit_right) THEN hit_right
    ELSE None

\* the match on (hit_left, hit_right)
BVHNode_hit_match(hit_left, hit_right) ==
    IF IsSome(hit_left) /\ IsSome(hit_right)
    THEN (IF QLt(hit_right[1].t, hit_left[1].t) THEN hit_right ELSE hit_left)
    ELSE IF IsSome(hit_left) THEN hit_left
    ELSE IF IsSome(hit_right) THEN hit_right
    ELSE None

BVHNode_hit_right(node, r, ray_t, hit_left, right_endpoint) ==
    BVHNode_hit_match(hit_left,
                      hit(node.right, r, Interval_new(ray_t.min, right_endpoint)))

BVHNode_hit_left(node, r, ray_t, hit_left) ==
    BVHNode_hit_right(node, r, ray_t, hit_left,
                      IF IsSome(hit_left) THEN hit_left[1].t ELSE ray_t.max)

BVHNode_hit_unchecked(node, r, ray_t) ==
    BVHNode_hit_left(node, r, ray_t, hit(node.left, r, ray_t))

BVHNode_hit(node, r, ray_t) ==
    IF ~AABB_hit(node.bbox, r, ray_t) THEN None
    ELSE BVHNode_hit_unchecked(node, r, ray_t)

hit(obj, r, ray_t) ==
    IF obj.kind = "sphere" THEN Sphere_hit(obj, r, ray_t)
    ELSE IF obj.kind = "quad" THEN Quad_hit(obj, r, ray_t)
    ELSE IF obj.kind = "list" THEN HittableList_hit(obj, r, ray_t)
    ELSE BVHNode_hit(obj, r, ray_t)

HittableList_default == [kind |-> "list", objects |-> <<>>, bbox |-> AABB_default]

HittableList_add(list, object) ==
    [list EXCEPT !.bbox = AABB_from_boxes(list.bbox, bounding_box(object)),
                 !.objects = Append(list.objects, object)]

\* a_axis_interval.min.total_cmp(&b_axis_interval.min) is Less
box_compare_less(a, b, axis) ==
    QLt(axis_interval(bounding_box(a), axis).min, axis_interval(bounding_box(b), axis).min)

\* slice::sort_by is a stable sort: insertion after the last element not greater
RECURSIVE InsertSorted(_, _, _)
InsertSorted(sorted, x, axis) ==
    IF sorted = <<>> THEN <<x>>
    ELSE IF box_compare_less(x, sorted[Len(sorted)], axis)
    THEN Append(InsertSorted(SubSeq(sorted, 1, Len(sorted) - 1), x, axis), sorted[Len(sorted)])
    ELSE Append(sorted, x)

RECURSIVE sort_by_box(_, _)
sort_by_box(objects, axis) ==
    IF objects = <<>> THEN <<>>
    ELSE InsertSorted(sort_by_box(SubSeq(objects, 1, Len(objects) - 1), axis),
                      objects[Len(objects)], axis)

RECURSIVE SliceBox(_, _)
SliceBox(objects, i) ==
    \* bbox after the loop over objects[1..i], starting from AABB::EMPTY
    IF i = 0 THEN AABB_EMPTY
    ELSE AABB_from_boxes(SliceBox(objects, i - 1), bounding_box(objects[i]))

\* the recursion that never returns: the thread's stack overflows
StackOverflow == [panic |-> "stack overflow"]

\* a split point one past the middle of an odd slice
split_mid_ceil(len) == (len + 1) \div 2

\* objects.len() / 2, the argument of split_at_mut
split_mid(len) == len \div 2

\* BVHNode::from_slice: the node built, the slice as the in-place sorts leave
\* it, and calls: for each slice it recursed from, the lengths of the slice
\* and of the two sub-slices
RECURSIVE BVHNode_from_slice(_)
BVHNode_of(l, rr, bbox, len) ==
    [node |-> [kind |-> "bvh", left |-> l.node, right |-> rr.node, bbox |-> bbox],
     slice |-> l.slice \o rr.slice,
     calls |-> {[len |-> len, left |-> Len(l.slice), right |-> Len(rr.slice)]}
                   \cup l.calls \cup rr.calls]

\* the else branch.  Both halves of an empty slice are empty: from_slice calls
\* itself on the slice it received, and never returns
BVHNode_split(sorted, mid, bbox) ==
    IF Len(sorted) = 0 THEN StackOverflow
    ELSE BVHNode_of(BVHNode_from_slice(SubSeq(sorted, 1, mid)),
                    BVHNode_from_slice(SubSeq(sorted, mid + 1, Len(sorted))),
                    bbox, Len(sorted))

\* the match with the children of a short slice taken from its end first
BVHNode_match_swapped(objects, bbox) ==
    IF Len(objects) = 1 \/ Len(objects) = 2
    THEN [node |-> [kind |-> "bvh", left |-> objects[Len(objects)], right |-> objects[1],
                    bbox |-> bbox],
          slice |-> objects, calls |-> {}]
    ELSE BVHNode_split(sort_by_box(objects, longest_axis(bbox)), split_mid(Len(objects)), bbox)

BVHNode_match(objects, bbox) ==
    IF Len(objects) = 1
    THEN [node |-> [kind |-> "bvh", left |-> objects[1], right |-> objects[1], bbox |-> bbox],
          slice |-> objects, calls |-> {}]
    ELSE IF Len(objects) = 2
    THEN [node |-> [kind |-> "bvh", left |-> objects[1], right |-> objects[2], bbox |-> bbox],
          slice |-> objects, calls |-> {}]
    ELSE BVHNode_split(sort_by_box(objects, longest_axis(bbox)), split_mid(Len(objects)), bbox)

BVHNode_from_slice(objects) == BVHNode_match(objects, SliceBox(objects, Len(objects)))


(***************************************************************************)
(* texture.rs and material.rs: the values the loader builds.  A texture or *)
(* a material is a record tagged by kind; an Arc is the value it points to.*)
(***************************************************************************)
\* a Result: Ok(value), the Err a `?` returns, or the panic of an
\* out-of-range index
Ok(x) == [outcome |-> "Ok", value |-> x]

Err == [outcome |-> "Err"]

Panic == [outcome |-> "panic"]

\* the image files RtwImage::new can open and decode
ReadableImages == {"earth.png"}

SolidColor_new(name, albedo) == [kind |-> "solid", name |-> name, albedo |-> albedo]

Texture_name(tex) == IF tex.kind = "noise" THEN "perlin_default" ELSE tex.name

CheckerTexture_new(scale, even, odd) ==
    [kind |-> "checker",
     name |-> "checker_" \o Texture_name(even) \o "_" \o Texture_name(odd),
     inv_scale |-> QInv(scale), even |-> even, odd |-> odd]

\* format!("image_{path:?}"); RtwImage::new(&path)?
ImageTexture_new(path) ==
    IF path \in ReadableImages
    THEN Ok([kind |-> "image", name |-> "image_\"" \o path \o "\"", path |-> path])
    ELSE Err

NoiseTexture_new(scale) == [kind |-> "noise", scale |-> scale]

Lambertian_from_texture(texture) == [kind |-> "lambertian", tex |-> texture]

Metal_new(name, albedo, fuzz) ==
    [kind |-> "metal", name |-> name, albedo |-> albedo, fuzz |-> QMin(fuzz, One)]

Dielectric_new(name, refraction_index) ==
    [kind |-> "dielectric", name |-> name, refraction_index |-> refraction_index]

Material_name(mat) == IF mat.kind = "lambertian" THEN Texture_name(mat.tex) ELSE mat.name

(***************************************************************************)
(* scene_loader.rs: the specs of a SceneFile and their build.  A HashMap   *)
(* is a function on the set of its keys; map[&key] panics on a missing key.*)
(***************************************************************************)
HashMap_new == <<>>

HashMap_insert(map, key, value) ==
    [k \in DOMAIN map \cup {key} |-> IF k = key THEN value ELSE map[k]]

TextureSpec_SolidColor(albedo) == [kind |-> "SolidColor", albedo |-> albedo]

TextureSpec_Checker(scale, even, odd) ==
    [kind |-> "Checker", scale |-> scale, even |-> even, odd |-> odd]

TextureSpec_Image(path) == [kind |-> "Image", path |-> path]

TextureSpec_Perlin(scale) == [kind |-> "Perlin", scale |-> scale]

TextureSpec_build(spec, name, textures) ==
    IF spec.kind = "SolidColor" THEN Ok(SolidColor_new(name, spec.albedo))
    ELSE IF spec.kind = "Checker"
    THEN (IF spec.even \notin DOMAIN textures \/ spec.odd \notin DOMAIN textures
          THEN Panic
          ELSE Ok(CheckerTexture_new(spec.scale, textures[spec.even], textures[spec.odd])))
    ELSE IF spec.kind = "Image" THEN ImageTexture_new(spec.path)
    ELSE Ok(NoiseTexture_new(spec.scale))

MaterialSpec_Lambertian(texture) == [kind |-> "Lambertian", texture |-> texture]

MaterialSpec_Metal(albedo, fuzz) == [kind |-> "Metal", albedo |-> albedo, fuzz |-> fuzz]

MaterialSpec_Dielectric(refraction_index) ==
    [kind |-> "Dielectric", refraction_index |-> refraction_index]

MaterialSpec_build(spec, name, textures) ==
    IF spec.kind = "Lambertian"
    THEN (IF spec.texture \notin DOMAIN textures
          THEN Panic
          ELSE Ok(Lambertian_from_texture(textures[spec.texture])))
    ELSE IF spec.kind = "Metal" THEN Ok(Metal_new(name, spec.albedo, spec.fuzz))
    ELSE Ok(Dielectric_new(name, spec.refraction_index))

ShapeSpec_Circle(radius, center, material) ==
    [kind |-> "Circle", radius |-> radius, center |-> center, material |-> material]

ShapeSpec_Quad(q, u, v, material) ==
    [kind |-> "Quad", q |-> q, u |-> u, v |-> v, material |-> material]

ShapeSpec_List(shape_specs) == [kind |-> "List", shape_specs |-> shape_specs]

ShapeSpec_BVH(left, right) == [kind |-> "BVH", left |-> left, right |-> right]

RECURSIVE ShapeSpec_build(_, _)
RECURSIVE ShapeSpec_build_list(_, _, _, _)
\* the loop body of the List arm once shape_specs[i] is built
ShapeSpec_build_list_step(shape_specs, materials, i, world, built) ==
    IF built.outcome # "Ok" THEN built
    ELSE ShapeSpec_build_list(shape_specs, materials, i + 1,
                              HittableList_add(world, built.value))

ShapeSpec_build_list(shape_specs, materials, i, world) ==
    IF i > Len(shape_specs) THEN Ok(world)
    ELSE ShapeSpec_build_list_step(shape_specs, materials, i, world,
                                   ShapeSpec_build(shape_specs[i], materials))

\* the BVH arm once both children are built
ShapeSpec_build_bvh(left, right) ==
    IF left.outcome # "Ok" THEN left
    ELSE IF right.outcome # "Ok" THEN right
    ELSE Ok(BVHNode_from_slice(<<left.value, right.value>>).node)

ShapeSpec_build(spec, materials) ==
    IF spec.kind = "Circle"
    THEN (IF spec.material \notin DOMAIN materials
          THEN Panic
          ELSE Ok(Sphere_new_moving(spec.center.orig,
                                    VAdd(spec.center.orig, spec.center.dir),
                                    spec.radius, materials[spec.material])))
    ELSE IF spec.kind = "Quad"
    THEN (IF spec.material \notin DOMAIN materials
          THEN Panic
          ELSE Ok(Quad_new(spec.q, spec.u, spec.v, materials[spec.material])))
    ELSE IF spec.kind = "List"
    THEN ShapeSpec_build_list(spec.shape_specs, materials, 1, HittableList_default)
    ELSE ShapeSpec_build_bvh(ShapeSpec_build(spec.left, materials),
                             ShapeSpec_build(spec.right, materials))

\* SceneFile::into_list: the three loops, each from entry i on
RECURSIVE into_list_textures(_, _, _)
into_list_textures_step(entries, i, textures, built) ==
    IF built.outcome # "Ok" THEN built
    ELSE into_list_textures(entries, i + 1,
                            HashMap_insert(textures, entries[i][1], built.value))

into_list_textures(entries, i, textures) ==
    IF i > Len(entries) THEN Ok(textures)
    ELSE into_list_textures_step(entries, i, textures,
                                 TextureSpec_build(entries[i][2], entries[i][1], textures))

RECURSIVE into_list_materials(_, _, _, _)
into_list_materials_step(entries, i, textures, materials, built) ==
    IF built.outcome # "Ok" THEN built
    ELSE into_list_materials(entries, i + 1, textures,
                             HashMap_insert(materials, entries[i][1], built.value))

into_list_materials(entries, i, textures, materials) ==
    IF i > Len(entries) THEN Ok(materials)
    ELSE into_list_materials_step(entries, i, textures, materials,
                                  MaterialSpec_build(entries[i][2], entries[i][1], textures))

into_list_with_materials(file, materials) ==
    IF materials.outcome # "Ok" THEN materials
    ELSE ShapeSpec_build_list(file.shapes, materials.value, 1, HittableList_default)

into_list_with_textures(file, textures) ==
    IF textures.outcome # "Ok" THEN textures
    ELSE into_list_with_materials(file,
            into_list_materials(file.materials, 1, textures.value, HashMap_new))

into_list(file) ==
    into_list_with_textures(file, into_list_textures(file.textures, 1, HashMap_new))

(***************************************************************************)
(* scene_loader.rs: ResourceRegistry, and the to_spec methods that fill it *)
(* (texture.rs, material.rs, sphere.rs, quad.rs, bvh.rs, hittable.rs).  A  *)
(* to_spec returns the spec together with the registry it leaves.          *)
(***************************************************************************)
ResourceRegistry_default == [materials |-> <<>>, textures |-> <<>>]

Registered(table, name) == \E i \in 1..Len(table) : table[i][1] = name

register_material_unconditional(registry, name, spec) ==
    [registry EXCEPT !.materials = Append(@, <<name, spec>>)]

register_material(registry, name, spec) ==
    IF Registered(registry.materials, name) THEN registry
    ELSE [registry EXCEPT !.materials = Append(@, <<name, spec>>)]

\* a registry that lists a new texture first, not last
register_texture_front(registry, name, spec) ==
    IF Registered(registry.textures, name) THEN registry
    ELSE [registry EXCEPT !.textures = <<<<name, spec>>>> \o @]

register_texture(registry, name, spec) ==
    IF Registered(registry.textures, name) THEN registry
    ELSE [registry EXCEPT !.textures = Append(@, <<name, spec>>)]

RECURSIVE Texture_to_spec(_, _)
CheckerTexture_to_spec_odd(tex, odd) ==
    [spec |-> TextureSpec_Checker(QInv(tex.inv_scale), Texture_name(tex.even),
                                  Texture_name(tex.odd)),
     registry |-> register_texture(odd.registry, Texture_name(tex.odd), odd.spec)]

CheckerTexture_to_spec_even(tex, even) ==
    CheckerTexture_to_spec_odd(tex,
        Texture_to_spec(tex.odd,
                        register_texture(even.registry, Texture_name(tex.even), even.spec)))

Texture_to_spec(tex, registry) ==
    IF tex.kind = "solid"
    THEN [spec |-> TextureSpec_SolidColor(tex.albedo), registry |-> registry]
    ELSE IF tex.kind = "checker"
    THEN CheckerTexture_to_spec_even(tex, Texture_to_spec(tex.even, registry))
    ELSE IF tex.kind = "image"
    THEN [spec |-> TextureSpec_Image(tex.path), registry |-> registry]
    ELSE [spec |-> TextureSpec_Perlin(tex.scale), registry |-> registry]

Lambertian_to_spec(mat, tex) ==
    [spec |-> MaterialSpec_Lambertian(Texture_name(mat.tex)),
     registry |-> register_texture(tex.registry, Texture_name(mat.tex), tex.spec)]

Material_to_spec(mat, registry) ==
    IF mat.kind = "lambertian"
    THEN Lambertian_to_spec(mat, Texture_to_spec(mat.tex, registry))
    ELSE IF mat.kind = "metal"
    THEN [spec |-> MaterialSpec_Metal(mat.albedo, mat.fuzz), registry |-> registry]
    ELSE [spec |-> MaterialSpec_Dielectric(mat.refraction_index), registry |-> registry]

Sphere_to_spec(s, material_spec) ==
    [spec |-> ShapeSpec_Circle(s.radius, s.center, Material_name(s.mat)),
     registry |-> register_material(material_spec.registry, Material_name(s.mat),
                                    material_spec.spec)]

Quad_to_spec(quad, material_spec) ==
    [spec |-> ShapeSpec_Quad(quad.q, quad.u, quad.v, Material_name(quad.mat)),
     registry |-> register_material(material_spec.registry, Material_name(quad.mat),
                                    material_spec.spec)]

RECURSIVE to_spec(_, _)
RECURSIVE HittableList_to_specs(_, _, _, _)
HittableList_to_specs_step(objects, i, specs, shape_spec) ==
    HittableList_to_specs(objects, i + 1, Append(specs, shape_spec.spec),
                          shape_spec.registry)

\* the loop `for obj in objects { specs.push(obj.to_spec(registry)) }` from
\* member i on: the specs and the registry it leaves
HittableList_to_specs(objects, i, specs, registry) ==
    IF i > Len(objects) THEN [spec |-> specs, registry |-> registry]
    ELSE HittableList_to_specs_step(objects, i, specs, to_spec(objects[i], registry))

HittableList_to_spec(pushed) ==
    [spec |-> ShapeSpec_List(pushed.spec), registry |-> pushed.registry]

BVHNode_to_spec_right(left, right) ==
    [spec |-> ShapeSpec_BVH(left.spec, right.spec), registry |-> right.registry]

BVHNode_to_spec_left(node, left) ==
    BVHNode_to_spec_right(left, to_spec(node.right, left.registry))

to_spec(obj, registry) ==
    IF obj.kind = "sphere" THEN Sphere_to_spec(obj, Material_to_spec(obj.mat, registry))
    ELSE IF obj.kind = "quad" THEN Quad_to_spec(obj, Material_to_spec(obj.mat, registry))
    ELSE IF obj.kind = "list"
    THEN HittableList_to_spec(HittableList_to_specs(obj.objects, 1, <<>>, registry))
    ELSE BVHNode_to_spec_left(obj, to_spec(obj.left, registry))

\* impl From<HittableList> for SceneFile
SceneFile_of(pushed) ==
    [textures |-> pushed.registry.textures,
     materials |-> pushed.registry.materials,
     shapes |-> pushed.spec]

SceneFile_from(value) ==
    SceneFile_of(HittableList_to_specs(value.objects, 1, <<>>, ResourceRegistry_default))

(***************************************************************************)
(* vec.rs, texture.rs, material.rs: scattering.  What rand supplies to one *)
(* call of scatter is the record env: rnd (Vec3::random_unit_vector()),    *)
(* random (rand::random::<f64>()); env also holds what the model does not  *)
(* compute: sin (the f64::sin of NoiseTexture::value) and pixel (the pixel *)
(* ImageTexture::value reads).                                             *)
(***************************************************************************)
I32Max == 2147483647

\* `x as i32`: towards zero, saturating, NaN to 0
F64_as_i32(x) ==
    IF IsNaN(x) THEN 0
    ELSE IF x = PInf THEN I32Max
    ELSE IF x = NInf THEN -I32Max - 1
    ELSE Sign(x[1]) * (Abs(x[1]) \div x[2])

\* f64::floor
QFloor(x) == IF IsFin(x) THEN I(x[1] \div x[2]) ELSE x

VMul(a, b) == <<QMul(a[1], b[1]), QMul(a[2], b[2]), QMul(a[3], b[3])>>

NearZeroEps == Q(1, 100000000)

near_zero(v) == \A i \in Axes : QLt(QAbs(v[i]), NearZeroEps)

reflect(v, n) == VSub(v, VScale(n, QMul(I(2), dot(v, n))))

refract_parallel(n, r_out_perp) ==
    VAdd(r_out_perp,
         VScale(n, QNeg(QSqrt(QAbs(QSub(One, length_squared(r_out_perp)))))))

refract(uv, n, etai_over_etat) ==
    refract_parallel(n, VScale(VAdd(uv, VScale(n, QMin(dot(VNeg(uv), n), One))),
                               etai_over_etat))

CheckerTexture_is_even(x_int, y_int, z_int) == (x_int + y_int + z_int) % 2 = 0

RECURSIVE Texture_value(_, _, _, _, _)
Texture_value(tex, u, v, p, env) ==
    IF tex.kind = "solid" THEN tex.albedo
    ELSE IF tex.kind = "checker"
    THEN (IF CheckerTexture_is_even(F64_as_i32(QFloor(QMul(tex.inv_scale, p[1]))),
                                    F64_as_i32(QFloor(QMul(tex.inv_scale, p[2]))),
                                    F64_as_i32(QFloor(QMul(tex.inv_scale, p[3]))))
          THEN Texture_value(tex.even, u, v, p, env)
          ELSE Texture_value(tex.odd, u, v, p, env))
    ELSE IF tex.kind = "image"
    THEN VScale(<<I(env.pixel[1]), I(env.pixel[2]), I(env.pixel[3])>>, Q(1, 255))
    ELSE VScale(<<Q(1, 2), Q(1, 2), Q(1, 2)>>, QAdd(One, env.sin))

\* `x as u32`: towards zero, NaN and negative values to 0.  (Values above
\* u32::MAX saturate; ImageTexture::value passes at most width or height.)
F64_as_u32(x) ==
    IF IsNaN(x) THEN 0
    ELSE IF x[1] < 0 THEN 0
    ELSE x[1] \div x[2]

\* ImageTexture::value: the column i and the row j of the pixel it reads
ImageTexture_value_ij(u, v, width, height) ==
    <<F64_as_u32(QMul(u, I(width))), F64_as_u32(QMul(v, I(height)))>>

ImageTexture_value_clamped(u, v, width, height) ==
    ImageTexture_value_ij(Interval_clamp(Interval_new(Zero, One), u),
                          QSub(One, Interval_clamp(Interval_new(Zero, One), v)),
                          width, height)

\* RgbImage::get_pixel(x, y) panics unless x < width and y < height
RtwImage_get_pixel_in_bounds(ij, width, height) == ij[1] < width /\ ij[2] < height

ScatterRecord(attenuation, scattered) ==
    [attenuation |-> attenuation, scattered |-> scattered]

Lambertian_scatter_direction(rec, scatter_direction) ==
    IF near_zero(scatter_direction) THEN rec.normal ELSE scatter_direction

Lambertian_scatter(mat, r_in, rec, env) ==
    Some(ScatterRecord(Texture_value(mat.tex, rec.u, rec.v, rec.p, env),
                       Ray_new_with_time(rec.p,
                           Lambertian_scatter_direction(rec, VAdd(rec.normal, env.rnd)),
                           r_in.tm)))

Metal_scatter_scattered(mat, rec, scattered) ==
    IF QLt(Zero, dot(scattered.dir, rec.normal))
    THEN Some(ScatterRecord(mat.albedo, scattered))
    ELSE None

Metal_scatter(mat, r_in, rec, env) ==
    Metal_scatter_scattered(mat, rec,
        Ray_new_with_time(rec.p,
            VAdd(unit_vector(reflect(r_in.dir, rec.normal)), VScale(env.rnd, mat.fuzz)),
            r_in.tm))

Pow5(x) == QMul(QMul(QMul(x, x), QMul(x, x)), x)

Dielectric_reflectance_r0(cosine, r0) ==
    QAdd(r0, QMul(QSub(One, r0), Pow5(QSub(One, cosine))))

Dielectric_reflectance_ratio(cosine, ratio) ==
    Dielectric_reflectance_r0(cosine, QMul(ratio, ratio))

Dielectric_reflectance(cosine, refraction_index) ==
    Dielectric_reflectance_ratio(cosine,
        QDiv(QSub(One, refraction_index), QAdd(One, refraction_index)))

Dielectric_scatter_direction(rec, env, ri, unit_direction, cos_theta, sin_theta) ==
    IF QLt(One, QMul(ri, sin_theta)) \/ QLt(env.random, Dielectric_reflectance(cos_theta, ri))
    THEN reflect(unit_direction, rec.normal)
    ELSE refract(unit_direction, rec.normal, ri)

Dielectric_scatter_cos(r_in, rec, env, ri, unit_direction, cos_theta) ==
    Some(ScatterRecord(V(1, 1, 1),
        Ray_new_with_time(rec.p,
            Dielectric_scatter_direction(rec, env, ri, unit_direction, cos_theta,
                QSqrt(QSub(One, QMul(cos_theta, cos_theta)))),
            r_in.tm)))

Dielectric_scatter_unit(r_in, rec, env, ri, unit_direction) ==
    Dielectric_scatter_cos(r_in, rec, env, ri, unit_direction,
                           QMin(dot(VNeg(unit_direction), rec.normal), One))

Dielectric_scatter(mat, r_in, rec, env) ==
    Dielectric_scatter_unit(r_in, rec, env,
        IF rec.front_face THEN QInv(mat.refraction_index) ELSE mat.refraction_index,
        unit_vector(r_in.dir))

\* rec.mat.scatter(r, &rec)
Material_scatter(mat, r_in, rec, env) ==
    IF mat.kind = "lambertian" THEN Lambertian_scatter(mat, r_in, rec, env)
    ELSE IF mat.kind = "metal" THEN Metal_scatter(mat, r_in, rec, env)
    ELSE Dielectric_scatter(mat, r_in, rec, env)

(***************************************************************************)
(* camera.rs: ray_color.  envs[depth] is what rand supplies to the scatter *)
(* of the call with that depth.                                            *)
(***************************************************************************)
SkyWhite == V(1, 1, 1)

SkyBlue == <<Q(1, 2), Q(7, 10), One>>

ray_color_sky_a(a) == VAdd(VScale(SkyWhite, QSub(One, a)), VScale(SkyBlue, a))

ray_color_sky(unit_direction) ==
    ray_color_sky_a(QMul(Q(1, 2), QAdd(unit_direction[2], One)))

RECURSIVE ray_color(_, _, _, _)
\* the scattered ray's colour returned without the attenuation
ray_color_scatter_unattenuated(depth, world_, envs, scatter) ==
    IF IsSome(scatter)
    THEN ray_color(scatter[1].scattered, depth - 1, world_, envs)
    ELSE Vec3_ZERO

ray_color_scatter(depth, world_, envs, scatter) ==
    IF IsSome(scatter)
    THEN VMul(scatter[1].attenuation,
              ray_color(scatter[1].scattered, depth - 1, world_, envs))
    ELSE Vec3_ZERO

ray_color_hit(r, depth, world_, envs, rec) ==
    IF IsSome(rec)
    THEN ray_color_scatter(depth, world_, envs,
                           Material_scatter(rec[1].mat, r, rec[1], envs[depth]))
    ELSE ray_color_sky(unit_vector(r.dir))

ray_color(r, depth, world_, envs) ==
    IF depth <= 0 THEN Vec3_ZERO
    ELSE ray_color_hit(r, depth, world_, envs,
                       HittableList_hit(world_, r, Interval_new(Q(1, 1000), PInf)))

(***************************************************************************)
(* color.rs: write_color; camera.rs: CameraBuilder::build and the pieces   *)
(* of Camera::render.  The sink is the sequence of the lines written.      *)
(***************************************************************************)
INTENSITY_unit == Interval_new(Zero, One)

INTENSITY == Interval_new(Zero, Q(999, 1000))

linear_to_gamma(linear_component) ==
    IF QLt(Zero, linear_component) THEN QSqrt(linear_component) ELSE Zero

\* (256.0 * INTENSITY.clamp(linear_to_gamma(c))) as i32
write_color_byte(c) ==
    F64_as_i32(QMul(I(256), Interval_clamp(INTENSITY, linear_to_gamma(c))))

write_color_bytes(color) ==
    <<write_color_byte(color[1]), write_color_byte(color[2]), write_color_byte(color[3])>>

\* "{rbyte} {gbyte} {bbyte}"
write_color_line(bytes) ==
    ToString(bytes[1]) \o " " \o ToString(bytes[2]) \o " " \o ToString(bytes[3])

\* writeln!(out, "{rbyte} {gbyte} {bbyte}")
write_color(color, out) == Append(out, write_color_line(write_color_bytes(color)))

i32_max(a, b) == IF a >= b THEN a ELSE b

\* image_height = ((image_width as f64 / aspect_ratio) as i32).max(1)
CameraBuilder_build(image_width, aspect_ratio) ==
    [image_width |-> image_width,
     aspect_ratio |-> aspect_ratio,
     image_height |-> i32_max(F64_as_i32(QDiv(I(image_width), aspect_ratio)), 1)]

\* (0..n): empty when n <= 0
Range(n) == 0..(n - 1)

\* writeln!(out, "P3\n{} {}\n255", image_width, image_height)
render_header(camera_, out) ==
    out \o <<"P3",
             ToString(camera_.image_width) \o " " \o ToString(camera_.image_height),
             "255">>

\* what flat_map_iter yields for row j: the colours of columns 0..image_width
render_row(camera_, image, j) ==
    [i1 \in 1..i32_max(camera_.image_width, 0) |-> image[j, i1 - 1]]

\* collect(): the rows in the order of the range 0..image_height, whatever
\* the order done in which the workers completed them
RECURSIVE collect_from(_, _, _)
collect_from(rows_, j, n) ==
    IF j >= n THEN <<>> ELSE rows_[j][1] \o collect_from(rows_, j + 1, n)

RECURSIVE collect_done_from(_, _, _)
collect_done_from(rows_, done, k) ==
    IF k > Len(done) THEN <<>>
    ELSE rows_[done[k]][1] \o collect_done_from(rows_, done, k + 1)

collect_in_completion_order(rows_, done, n) == collect_done_from(rows_, done, 1)

collect(rows_, done, n) == collect_from(rows_, 0, n)

(***************************************************************************)
(* State.                                                                  *)
(***************************************************************************)
VARIABLES
    world,      \* the HittableList being built (hittable.rs)
    bvh,        \* None, or <<node>> built by BVHNode::new over world's objects
    ray,        \* None, or <<r>>: the ray last cast
    ray_t,      \* the interval it was cast with
    rec_list,   \* what HittableList::hit returned for it
    rec_bvh,    \* what BVHNode::hit returned for it
    prim_recs,  \* per member of world: what its own hit returned
    box_hits,   \* per member of world: what AABB::hit on its box returned
    gpc,        \* "build", "built", "cast" or "aborted"
    file,       \* None, or <<f>>: the SceneFile deserialized from the scene document
    loaded,     \* None, or what file.into_list() ended with
    saved,      \* None, or <<f>>: SceneFile::from of the loaded world
    reloaded,   \* None, or what saved.into_list() ended with
    lpc,        \* "idle", "file", "loaded", "saved" or "reloaded"
    scene,      \* None, or <<world>>: the HittableList a camera traces
    traced,     \* None, or <<[r, depth, envs]>>: the arguments of the last ray_color
    pixel_color, \* None, or <<c>>: what that ray_color returned
    camera,     \* None, or <<c>>: the Camera CameraBuilder::build returned
    image,      \* image[j, i]: the colour render computes for row j, column i
    rows,       \* rows[j]: None, or <<row>> once a worker has computed row j
    done,       \* the rows in the order the workers completed them
    pixels,     \* None, or <<ps>>: the Vec collect() returned
    sink,       \* the lines written to out
    render_result, \* None, "Ok" or "Err": what render returned
    rpc,        \* "idle", "compute", "header", "pixels" or "done"
    job_params,            \* RtiowApp: the RenderJob the control panel edits
    last_sent_params,      \* RtiowApp
    render_progress,       \* RtiowApp: None, or <<id>>: the progress state of job id
    next_job_id,           \* RtiowApp
    newest_requested_job,  \* RtiowApp: None or <<id>>
    newest_finished_job,   \* RtiowApp: None or <<id>>
    image_bytes,           \* RtiowApp: None or <<image>>
    job_q,      \* the channel job_tx -> job_rx
    result_q,   \* the channel result_tx -> result_rx
    upc,        \* update(): "poll" (the try_recv loop) or "panel" (the rest)
    wpc,        \* render thread: "recv", "drain", "start", "init" or "render"
    job,        \* render thread: None or <<request>>, the local `job`
    progress,   \* progress[id]: the RenderProgressState made for job id
    rendered,   \* the ids render_scene was called for, in order
    ticked,     \* ticked[id]: the number of tick() calls issued for job id
    observed    \* observed[id]: the last value of current a poll read

geomVars == <<world, bvh, ray, ray_t, rec_list, rec_bvh, prim_recs, box_hits, gpc>>

loadVars == <<file, loaded, saved, reloaded, lpc>>

colorVars == <<scene, traced, pixel_color>>

renderVars == <<camera, image, rows, done, pixels, sink, render_result, rpc>>

appVars ==
    <<job_params, last_sent_params, render_progress, next_job_id, newest_requested_job,
      newest_finished_job, image_bytes>>

threadVars == <<job_q, result_q, upc, wpc, job, progress, rendered, ticked, observed>>

guiVars == <<appVars, threadVars>>

nonGeomVars == <<loadVars, colorVars, renderVars, guiVars>>

nonLoadVars == <<geomVars, colorVars, renderVars, guiVars>>

nonColorVars == <<geomVars, loadVars, renderVars, guiVars>>

nonRenderVars == <<geomVars, loadVars, colorVars, guiVars>>

nonGuiVars == <<geomVars, loadVars, colorVars, renderVars>>

vars == <<geomVars, loadVars, colorVars, renderVars, guiVars>>

(***************************************************************************)
(* Geometry: building a world, building its BVH, casting one ray.          *)
(***************************************************************************)
\* bounds of the geometry inputs
MaxObjects == 3
RayGrid == 1

\* constructor calls the worlds are built from
BuildShape(c) ==
    IF c.ctor = "new" THEN Sphere_new(c.center, c.radius, c.mat)
    ELSE IF c.ctor = "new_moving" THEN Sphere_new_moving(c.center, c.center2, c.radius, c.mat)
    ELSE Quad_new(c.q, c.u, c.v, c.mat)

StaticSphere(c, r, m) == [ctor |-> "new", center |-> c, radius |-> r, mat |-> m]

MovingSphere(c1, c2, r, m) ==
    [ctor |-> "new_moving", center |-> c1, center2 |-> c2, radius |-> r, mat |-> m]

QuadOf(q, u, v, m) == [ctor |-> "quad", q |-> q, u |-> u, v |-> v, mat |-> m]

\* shapes of the single-primitive worlds
PrimCatalogue ==
    { StaticSphere(V(0, 0, 0), I(1), "m1"),
      StaticSphere(V(0, 0, 0), I(0), "m1"),
      StaticSphere(V(1, 0, 0), I(-1), "m1"),
      MovingSphere(V(0, 0, 0), V(2, 0, 0), I(1), "m2"),
      MovingSphere(V(0, -1, 0), V(0, 1, 2), Q(1, 2), "m2"),
      QuadOf(V(0, 0, 0), V(1, 0, 0), V(0, 1, 0), "m3"),
      QuadOf(V(-1, -1, 0), V(0, 2, 0), V(0, 0, 1), "m3"),
      QuadOf(V(0, 0, 0), V(1, 0, 0), V(0, 3, 4), "m4"),
      QuadOf(V(0, 0, 0), V(1, 0, 0), V(2, 0, 0), "m4") }

\* shapes of the worlds a BVH is built over
WorldCatalogue ==
    { StaticSphere(V(0, 0, 0), I(1), "m1"),
      MovingSphere(V(0, 0, 0), V(2, 0, 0), I(1), "m2"),
      QuadOf(V(0, 0, 0), V(1, 0, 0), V(0, 1, 0), "m3") }

RayTimes == {Zero, Q(1, 2), One}

\* the camera's interval of ray_color, and bounded ones
PrimIntervals ==
    { Interval_new(Q(1, 1000), PInf),
      Interval_new(Q(1, 1000), I(1)) }

WorldIntervals ==
    { Interval_new(Q(1, 1000), PInf),
      Interval_new(I(1), I(3)) }

\* ray origins: x and y within k of the origin, z within 1
GridPoints(k) == {V(x, y, z) : x \in -k..k, y \in -k..k, z \in -1..1}

Directions == {V(x, y, z) : x \in -1..1, y \in -1..1, z \in -1..1}

ZeroAxes(d) == {a \in Axes : d[a] = Zero}

\* rays from origin o: every direction at every time, and, for a direction
\* with zero components, the variant whose zeros are all -0.0
RaysFrom(origins, dirs) ==
    { [orig |-> o, dir |-> d, tm |-> t, negz |-> {}] :
        o \in origins, d \in dirs, t \in RayTimes }
    \cup
    { [orig |-> o, dir |-> d, tm |-> Zero, negz |-> ZeroAxes(d)] :
        o \in origins, d \in {e \in dirs : ZeroAxes(e) # {}} }

PrimRays == RaysFrom(GridPoints(RayGrid), Directions)

\* the worlds are looked at from above: origins with z > 0, directions that do
\* not climb
WorldOrigins == {V(-1, 0, 1), V(0, 0, 2)}

WorldDirections == {d \in Directions : QLe(d[3], Zero)}

WorldRays == RaysFrom(WorldOrigins, WorldDirections)

\* every sphere below obj has, for this ray, a discriminant whose square
\* root the model represents exactly
RECURSIVE ExactRoots(_, _)
ExactRoots(obj, r) ==
    IF obj.kind = "sphere" THEN HasSqrt(Sphere_discriminant(obj, r))
    ELSE IF obj.kind = "quad" THEN TRUE
    ELSE IF obj.kind = "list" THEN \A i \in 1..Len(obj.objects) : ExactRoots(obj.objects[i], r)
    ELSE ExactRoots(obj.left, r) /\ ExactRoots(obj.right, r)

GeomInit ==
    /\ world = HittableList_default
    /\ bvh = None
    /\ ray = None
    /\ ray_t = Interval_EMPTY
    /\ rec_list = None
    /\ rec_bvh = None
    /\ prim_recs = <<>>
    /\ box_hits = <<>>
    /\ gpc = "build"

LoadIdle ==
    /\ file = None
    /\ loaded = None
    /\ saved = None
    /\ reloaded = None
    /\ lpc = "idle"

\* the state after construction: an empty world, no scene document read
ColorIdle ==
    /\ scene = None
    /\ traced = None
    /\ pixel_color = None

RenderIdle ==
    /\ camera = None
    /\ image = <<>>
    /\ rows = <<>>
    /\ done = <<>>
    /\ pixels = None
    /\ sink = <<>>
    /\ render_result = None
    /\ rpc = "idle"

\* RenderJob::default(): image_width 400
RenderJob_default == [image_width |-> 400]

\* RtiowApp::new()
RtiowApp_new ==
    /\ job_params = RenderJob_default
    /\ last_sent_params = RenderJob_default
    /\ render_progress = None
    /\ next_job_id = 0
    /\ newest_requested_job = None
    /\ newest_finished_job = None
    /\ image_bytes = None
    /\ job_q = <<>>
    /\ result_q = <<>>
    /\ upc = "poll"
    /\ wpc = "recv"
    /\ job = None
    /\ progress = <<>>
    /\ rendered = <<>>
    /\ ticked = <<>>
    /\ observed = <<>>

Init == GeomInit /\ LoadIdle /\ ColorIdle /\ RenderIdle /\ RtiowApp_new

\* world.add(Arc::new(shape))
Add(catalogue, max) ==
    /\ gpc = "build"
    /\ Len(world.objects) < max
    /\ \E c \in catalogue : world' = HittableList_add(world, BuildShape(c))
    /\ UNCHANGED <<bvh, ray, ray_t, rec_list, rec_bvh, prim_recs, box_hits, gpc>>
    /\ UNCHANGED nonGeomVars

\* BVHNode::new over the objects of the list
BuildBVH ==
    /\ gpc = "build"
    /\ IF BVHNode_from_slice(world.objects) = StackOverflow
       THEN bvh' = None /\ gpc' = "aborted"
       ELSE bvh' = Some(BVHNode_from_slice(world.objects).node) /\ gpc' = "built"
    /\ UNCHANGED <<world, ray, ray_t, rec_list, rec_bvh, prim_recs, box_hits>>
    /\ UNCHANGED nonGeomVars

\* one ray against the list, the BVH, and each member and its box
CastRay(rays, intervals) ==
    /\ gpc = "built"
    /\ \E r \in rays, rt \in intervals :
          /\ ExactRoots(world, r)
          /\ ray' = Some(r)
          /\ ray_t' = rt
          /\ rec_list' = HittableList_hit(world, r, rt)
          /\ rec_bvh' = BVHNode_hit(bvh[1], r, rt)
          /\ prim_recs' = [i \in 1..Len(world.objects) |-> hit(world.objects[i], r, rt)]
          /\ box_hits' = [i \in 1..Len(world.objects) |->
                              AABB_hit(bounding_box(world.objects[i]), r, rt)]
    /\ gpc' = "cast"
    /\ UNCHANGED <<world, bvh>>
    /\ UNCHANGED nonGeomVars

PrimNext ==
    \/ Add(PrimCatalogue, 1)
    \/ BuildBVH
    \/ CastRay(PrimRays, PrimIntervals)

WorldNext ==
    \/ Add(WorldCatalogue, MaxObjects)
    \/ BuildBVH
    \/ CastRay(WorldRays, WorldIntervals)

\* one primitive, many rays
SpecPrim == Init /\ [][PrimNext]_vars

\* worlds of up to MaxObjects primitives and their BVH
SpecWorld == Init /\ [][WorldNext]_vars

MaxSlice == 5

\* the shapes of WorldCatalogue and two more quads, in the planes xz and yz
BuildCatalogue ==
    WorldCatalogue \cup
        { QuadOf(V(0, 0, 0), V(1, 0, 0), V(0, 0, 1), "m3"),
          QuadOf(V(0, 0, 0), V(0, 1, 0), V(0, 0, 1), "m3") }

\* BVHNode::new over lists of up to MaxSlice objects
BuildNext ==
    \/ Add(BuildCatalogue, MaxSlice)
    \/ BuildBVH

SpecBuild == Init /\ [][BuildNext]_vars

(***************************************************************************)
(* The loader: a scene document is deserialized, loaded, serialized back   *)
(* and loaded again.                                                       *)
(***************************************************************************)
Red == V(1, 0, 0)

Grey == <<Q(1, 2), Q(1, 2), Q(1, 2)>>

\* textures that refer to no other texture
LeafTextureSpecs ==
    { TextureSpec_SolidColor(Red), TextureSpec_SolidColor(Grey),
      TextureSpec_Perlin(I(1)), TextureSpec_Perlin(I(2)),
      TextureSpec_Image("earth.png"), TextureSpec_Image("lost.png") }

CheckerSpecs ==
    { TextureSpec_Checker(scale, even, odd) :
        scale \in {I(1), I(2)}, even \in {"t1", "t2"}, odd \in {"t1", "t2"} }

\* the textures table: "t1", then "t2"
TextureTables ==
    { << <<"t1", x>>, <<"t2", y>> >> :
        x \in LeafTextureSpecs \cup {TextureSpec_Checker(I(1), "t2", "t2")},
        y \in LeafTextureSpecs \cup CheckerSpecs }

\* the materials table: "m1", then "m2"; "t3" is in no textures table
MaterialTables ==
    { << <<"m1", a>>, <<"m2", b>> >> :
        a \in {MaterialSpec_Lambertian("t1"), MaterialSpec_Metal(Red, I(0)),
               MaterialSpec_Metal(Red, Q(-1, 2))},
        b \in {MaterialSpec_Lambertian("t1"), MaterialSpec_Lambertian("t2"),
               MaterialSpec_Lambertian("t3"), MaterialSpec_Metal(Grey, I(2)),
               MaterialSpec_Dielectric(Q(3, 2))} }

UnitCircle(material) == ShapeSpec_Circle(I(1), Ray_new(V(0, 0, 0), V(0, 1, 0)), material)

UnitQuad(material) == ShapeSpec_Quad(V(0, 0, 0), V(1, 0, 0), V(0, 1, 0), material)

\* the shapes: a circle of "m1", then a second shape; "m3" is in no materials table
ShapeLists ==
    { <<UnitCircle("m1"), second>> :
        second \in { UnitCircle("m1"), UnitQuad("m2"), UnitCircle("m3"),
                     ShapeSpec_List(<<UnitQuad("m2")>>),
                     ShapeSpec_BVH(UnitCircle("m1"), UnitQuad("m2")) } }

SceneFiles ==
    { [textures |-> t, materials |-> m, shapes |-> sh] :
        t \in TextureTables, m \in MaterialTables, sh \in ShapeLists }

\* serde_json::from_reader(reader): the SceneFile of a document
OpenFile ==
    /\ lpc = "idle"
    /\ \E f \in SceneFiles : file' = Some(f)
    /\ lpc' = "file"
    /\ UNCHANGED <<loaded, saved, reloaded>>
    /\ UNCHANGED nonLoadVars

\* scene.into_list()
Load ==
    /\ lpc = "file"
    /\ loaded' = Some(into_list(file[1]))
    /\ lpc' = "loaded"
    /\ UNCHANGED <<file, saved, reloaded>>
    /\ UNCHANGED nonLoadVars

\* let scene: SceneFile = world.into()
Save ==
    /\ lpc = "loaded"
    /\ loaded[1].outcome = "Ok"
    /\ saved' = Some(SceneFile_from(loaded[1].value))
    /\ lpc' = "saved"
    /\ UNCHANGED <<file, loaded, reloaded>>
    /\ UNCHANGED nonLoadVars

\* into_list on the serialized scene
Reload ==
    /\ lpc = "saved"
    /\ reloaded' = Some(into_list(saved[1]))
    /\ lpc' = "reloaded"
    /\ UNCHANGED <<file, loaded, saved>>
    /\ UNCHANGED nonLoadVars

LoaderNext == OpenFile \/ Load \/ Save \/ Reload

SpecLoader == Init /\ [][LoaderNext]_vars


(***************************************************************************)
(* crates/gui/src/main.rs: the application, the render thread and the job  *)
(* and result channels between them                                        *)
(***************************************************************************)

MaxJobs == 3

MaxTicks == 2

RenderJobs == {[image_width |-> w] : w \in {400, 200}}

\* JobId::next
\* an id generator that hands out the same id again
JobId_next_same(id) == id

JobId_next(id) == id + 1

\* RenderProgressState::new
RenderProgressState_new == [total |-> 0, current |-> 0]

\* tick as a store of its argument instead of an addition
tick_store(state, current_) == [state EXCEPT !.current = current_]

\* RenderProgressTracker::tick for RenderProgressState: fetch_add(1)
tick(state, current_) == [state EXCEPT !.current = state.current + 1]

\* RenderProgressTracker::init for RenderProgressState: swap(total)
init(state, total) == [state EXCEPT !.total = total]

\* RenderProgressState::progress: current as f32 / total as f32
RenderProgressState_progress(state) == QDiv(I(state.current), I(state.total))

\* Option<JobId> as PartialOrd: None is below every Some
Option_ge(a, b) ==
    IF b = None THEN TRUE ELSE IF a = None THEN FALSE ELSE a[1] >= b[1]

\* the drain loop keeping the job it already holds
drain_keep(job_, next) == job_

\* the body of the drain loop: job = next
drain(job_, next) == next

\* the acceptance test of update() without the comparison
accepts_any(id, newest) == TRUE

\* the acceptance test of update()
accepts(id, newest) == Option_ge(Some(id), newest)

\* render_scene: the image is determined by the parameters
render_scene(params) == [params |-> params]

\* update(), one turn of the try_recv loop with a result in the channel
UiRecv ==
    /\ upc = "poll"
    /\ result_q # <<>>
    /\ result_q' = Tail(result_q)
    /\ IF accepts(Head(result_q).id, newest_requested_job)
       THEN /\ render_progress' = None
            /\ image_bytes' = Some(Head(result_q).image)
            /\ newest_finished_job' = Some(Head(result_q).id)
       ELSE UNCHANGED <<render_progress, image_bytes, newest_finished_job>>
    /\ UNCHANGED <<job_params, last_sent_params, next_job_id, newest_requested_job>>
    /\ UNCHANGED <<job_q, upc, wpc, job, progress, rendered, ticked, observed>>
    /\ UNCHANGED nonGuiVars

\* update(), try_recv finds the channel empty and the loop ends
UiRecvEmpty ==
    /\ upc = "poll"
    /\ result_q = <<>>
    /\ upc' = "panel"
    /\ UNCHANGED <<appVars, job_q, result_q, wpc, job, progress, rendered, ticked, observed>>
    /\ UNCHANGED nonGuiVars

\* control_panel: the progress bar reads progress() of render_progress
polled ==
    IF render_progress = None THEN observed
    ELSE [observed EXCEPT ![render_progress[1]] = progress[render_progress[1]].current]

\* update(), the rest: control_panel polls the progress and edits job_params,
\* then a job is pushed if the parameters changed
UiPanel ==
    /\ upc = "panel"
    /\ upc' = "poll"
    /\ \E params \in RenderJobs :
          /\ job_params' = params
          /\ IF params # last_sent_params
             THEN /\ next_job_id < MaxJobs
                  /\ next_job_id' = JobId_next(next_job_id)
                  /\ last_sent_params' = params
                  /\ newest_requested_job' = Some(JobId_next(next_job_id))
                  /\ progress' = Append(progress, RenderProgressState_new)
                  /\ ticked' = Append(ticked, 0)
                  /\ observed' = Append(polled, 0)
                  /\ render_progress' = Some(JobId_next(next_job_id))
                  /\ job_q' = Append(job_q, [id |-> JobId_next(next_job_id), params |-> params])
             ELSE /\ observed' = polled
                  /\ UNCHANGED <<next_job_id, last_sent_params, newest_requested_job,
                                 progress, ticked, render_progress, job_q>>
    /\ UNCHANGED <<newest_finished_job, image_bytes, result_q, wpc, job, rendered>>
    /\ UNCHANGED nonGuiVars

\* render thread: job_rx.recv() returns a job
WorkerRecv ==
    /\ wpc = "recv"
    /\ job_q # <<>>
    /\ job' = Some(Head(job_q))
    /\ job_q' = Tail(job_q)
    /\ wpc' = "drain"
    /\ UNCHANGED <<appVars, result_q, upc, progress, rendered, ticked, observed>>
    /\ UNCHANGED nonGuiVars

\* render thread: one turn of the drain loop, try_recv returns a job
WorkerDrain ==
    /\ wpc = "drain"
    /\ job_q # <<>>
    /\ job' = Some(drain(job[1], Head(job_q)))
    /\ job_q' = Tail(job_q)
    /\ UNCHANGED <<appVars, result_q, upc, wpc, progress, rendered, ticked, observed>>
    /\ UNCHANGED nonGuiVars

\* render thread: try_recv finds the channel empty and the drain loop ends
WorkerDrainEnd ==
    /\ wpc = "drain"
    /\ job_q = <<>>
    /\ wpc' = "start"
    /\ UNCHANGED <<appVars, job_q, result_q, upc, job, progress, rendered, ticked, observed>>
    /\ UNCHANGED nonGuiVars

\* render thread: render_scene is called for the job held
WorkerStart ==
    /\ wpc = "start"
    /\ rendered' = Append(rendered, job[1].id)
    /\ wpc' = "init"
    /\ UNCHANGED <<appVars, job_q, result_q, upc, job, progress, ticked, observed>>
    /\ UNCHANGED nonGuiVars

\* render: progress_tracker.init(total)
WorkerInit ==
    /\ wpc = "init"
    /\ \E total \in 1..MaxTicks :
          progress' = [progress EXCEPT ![job[1].id] = init(progress[job[1].id], total)]
    /\ wpc' = "render"
    /\ UNCHANGED <<appVars, job_q, result_q, upc, job, rendered, ticked, observed>>
    /\ UNCHANGED nonGuiVars

\* render: some worker thread calls progress_tracker.tick(current)
Tick ==
    /\ wpc = "render"
    /\ ticked[job[1].id] < progress[job[1].id].total
    /\ \E current_ \in 0..ticked[job[1].id] :
          progress' = [progress EXCEPT ![job[1].id] = tick(progress[job[1].id], current_)]
    /\ ticked' = [ticked EXCEPT ![job[1].id] = ticked[job[1].id] + 1]
    /\ UNCHANGED <<appVars, job_q, result_q, upc, wpc, job, rendered, observed>>
    /\ UNCHANGED nonGuiVars

\* render thread: render_scene returns, the result is sent
WorkerSend ==
    /\ wpc = "render"
    /\ ticked[job[1].id] = progress[job[1].id].total
    /\ result_q' = Append(result_q, [id |-> job[1].id, image |-> render_scene(job[1].params)])
    /\ job' = None
    /\ wpc' = "recv"
    /\ UNCHANGED <<appVars, job_q, upc, progress, rendered, ticked, observed>>
    /\ UNCHANGED nonGuiVars

GuiNext ==
    \/ UiRecv
    \/ UiRecvEmpty
    \/ UiPanel
    \/ WorkerRecv
    \/ WorkerDrain
    \/ WorkerDrainEnd
    \/ WorkerStart
    \/ WorkerInit
    \/ Tick
    \/ WorkerSend

SpecGui == Init /\ [][GuiNext]_vars

\* the UI thread: eframe keeps calling update() (ctx.request_repaint)
UiNext == UiRecv \/ UiRecvEmpty \/ UiPanel

\* the render thread: the loop of the closure spawned in RtiowApp::new
WorkerNext ==
    \/ WorkerRecv
    \/ WorkerDrain
    \/ WorkerDrainEnd
    \/ WorkerStart
    \/ WorkerInit
    \/ Tick
    \/ WorkerSend

\* both threads keep being scheduled, and a render (init, ticks, send)
\* terminates
SpecGuiLive == Init /\ [][GuiNext]_vars /\ WF_vars(UiNext) /\ WF_vars(WorkerNext)

(***************************************************************************)
(* Claims about the application.                                           *)
(***************************************************************************)

SeqRange(seq) == {seq[i] : i \in DOMAIN seq}

Increasing(seq) == \A i, k \in DOMAIN seq : i < k => seq[i] < seq[k]

ResultIds == {result_q[i].id : i \in DOMAIN result_q}

\* the render thread leaves the drain loop with the job it is to render
DrainEnds == wpc = "drain" /\ wpc' = "start"

\* the render thread calls render_scene
StartsRender == wpc = "start" /\ wpc' = "init"

\* C13, the part that holds in every state: no request is rendered after a
\* later one, so a request passed over is never rendered, and a JobResult
\* exists only for a request that was rendered
C13_DroppedStayDropped ==
    /\ Increasing(rendered)
    /\ ResultIds \subseteq SeqRange(rendered)
    /\ newest_finished_job # None => newest_finished_job[1] \in SeqRange(rendered)

\* C13: of the requests submitted before the render thread settles on a job
\* (its drain loop finds the channel empty) it renders only the most recently
\* submitted one; the earlier ones are dropped, never rendered, and never
\* produce a JobResult
C13_OnlyNewestRendered ==
    /\ []C13_DroppedStayDropped
    /\ [][DrainEnds => job'[1].id = next_job_id /\ job_q' = <<>>]_vars

\* C13: requests 1 and 2 were passed over, request 3 was rendered and its
\* result is in the channel
C13_Witness ==
    /\ rendered = <<3>>
    /\ ResultIds = {3}
    /\ next_job_id = 3

\* update() takes a JobResult from the channel
Receives == result_q # <<>> /\ result_q' = Tail(result_q)

Stale == newest_requested_job # None /\ Head(result_q).id < newest_requested_job[1]

\* C14: a JobResult whose id is lower than the newest requested job id leaves
\* image_bytes, newest_finished_job and render_progress unchanged; the image
\* is replaced only by the result of the newest requested job, rendered from
\* the parameters that are the latest submitted when it is accepted
C14_StaleResultDiscarded ==
    [][/\ Receives =>
            IF Stale
            THEN UNCHANGED <<image_bytes, newest_finished_job, render_progress>>
            ELSE /\ Some(Head(result_q).id) = newest_requested_job
                 /\ image_bytes' = Some(render_scene(last_sent_params))
                 /\ newest_finished_job' = newest_requested_job
       /\ image_bytes' # image_bytes => Receives /\ ~Stale]_vars

\* C14: request 1 was rendered while request 2 was submitted, and its result
\* was received and discarded
C14_Witness ==
    /\ rendered # <<>>
    /\ rendered[1] = 1
    /\ 1 \notin ResultIds
    /\ job = None
    /\ newest_requested_job = Some(2)
    /\ newest_finished_job = None
    /\ image_bytes = None
    /\ render_progress = Some(2)

\* C15: after n tick() calls, in whatever order the worker threads issue
\* them, the counter of a job is exactly n, and the value a poll reads for a
\* job never decreases
C15_NoLostTick ==
    /\ [](\A id \in DOMAIN progress : progress[id].current = ticked[id])
    /\ [][\A id \in DOMAIN observed : observed'[id] >= observed[id]]_vars

\* C15: a job was polled after its first tick and has now been ticked
\* MaxTicks times
C15_Witness ==
    \E id \in DOMAIN progress :
        /\ ticked[id] = MaxTicks
        /\ progress[id].current = MaxTicks
        /\ observed[id] = 1

JobIds == {job_q[i].id : i \in DOMAIN job_q}

\* C25 (as claimed): when the render thread begins to render a job, no
\* request newer than that job has been submitted
C25_NeverStale == [][StartsRender => job[1].id = next_job_id]_vars

\* C25 (what the code guarantees): when the drain loop ends, the job held is the newest
\* request submitted; when render_scene is then called, every newer request
\* was submitted after the drain loop ended and waits in the job channel
C25_NewerStillQueued ==
    /\ [][DrainEnds => job[1].id = next_job_id]_vars
    /\ [][StartsRender => JobIds = (job[1].id + 1)..next_job_id]_vars

\* C25: the render of request 1 has begun while request 2, submitted after
\* the drain loop ended, waits in the channel
C25_Witness ==
    /\ wpc = "init"
    /\ rendered = <<1>>
    /\ job[1].id = 1
    /\ next_job_id = 2
    /\ JobIds = {2}
    /\ ticked[1] = 0

\* the ids of the jobs the render thread holds or has begun to render
Taken == (IF job = None THEN {} ELSE {job[1].id}) \cup {rendered[i] : i \in DOMAIN rendered}

\* the last submitted job waits in the channel, is held by the render thread,
\* or its render has begun
LastKept == next_job_id > 0 => next_job_id \in JobIds \cup Taken

\* the UI shows the render of the last submitted parameters
Settled ==
    /\ newest_finished_job = newest_requested_job
    /\ image_bytes = Some(render_scene(last_sent_params))

\* C26: if the user stops changing parameters after n >= 1 submissions and
\* both threads keep running, then eventually and for ever
\* newest_finished_job = newest_requested_job = n and the image shown is the
\* render of the last submitted parameters; the last submitted job is never
\* dropped by the drain loop
C26_EventuallyNewest ==
    /\ []LastKept
    /\ \A n \in 1..MaxJobs :
          <>[](next_job_id = n) => <>[](Settled /\ newest_finished_job = Some(n))

\* C26: two jobs were submitted, the drain loop dropped the first, and the
\* render of the second is shown
C26_Witness ==
    /\ next_job_id = 2
    /\ rendered = <<2>>
    /\ newest_finished_job = Some(2)
    /\ Settled

\* update() pushes a job
Submits == next_job_id' # next_job_id

\* the render thread sends a result
Sends == wpc = "render" /\ wpc' = "recv"

\* every job id in the channels, held by either thread or rendered
IssuedIds ==
    JobIds \cup Taken \cup ResultIds
        \cup (IF newest_finished_job = None THEN {} ELSE {newest_finished_job[1]})

\* C29: every id in use was issued by the UI, the ids waiting in the job
\* channel and in the result channel increase strictly, newest_requested_job
\* is the last id issued and newest_finished_job is not above it; each
\* submission issues an id above every id issued before, and each result sent
\* has an id above every result sent before that is still in the channel or
\* was accepted
C29_IdsIncrease ==
    /\ [](/\ IssuedIds \subseteq 1..next_job_id
          /\ Increasing([i \in DOMAIN job_q |-> job_q[i].id])
          /\ Increasing([i \in DOMAIN result_q |-> result_q[i].id])
          /\ Increasing(rendered)
          /\ newest_requested_job = (IF next_job_id = 0 THEN None ELSE Some(next_job_id))
          /\ Option_ge(newest_requested_job, newest_finished_job))
    /\ [][Submits => /\ next_job_id' > next_job_id
                     /\ job_q'[Len(job_q')].id = next_job_id'
                     /\ Len(job_q') = Len(job_q) + 1]_vars
    /\ [][Sends => /\ result_q'[Len(result_q')].id = rendered[Len(rendered)]
                   /\ \A e \in ResultIds : e < rendered[Len(rendered)]
                   /\ newest_finished_job # None
                          => newest_finished_job[1] < rendered[Len(rendered)]]_vars

\* C29: three jobs were submitted, the second was dropped, and the results
\* of the first and the third wait in the result channel
C29_Witness ==
    /\ next_job_id = 3
    /\ Len(result_q) = 2
    /\ result_q[1].id = 1
    /\ result_q[2].id = 3
    /\ newest_finished_job = None

\* control_panel is about to read the progress of the job whose bar is shown
PollsProgress == upc = "panel" /\ render_progress # None

\* C30: whenever the UI polls the progress of the job whose bar is shown,
\* total > 0 and 0 <= current <= total, and the fraction progress() returns
\* is a number in [0, 1]
C30_ProgressDefined ==
    PollsProgress
        => /\ progress[render_progress[1]].total > 0
           /\ 0 <= progress[render_progress[1]].current
           /\ progress[render_progress[1]].current <= progress[render_progress[1]].total
           /\ Interval_contains(Interval_new(Zero, One),
                                RenderProgressState_progress(progress[render_progress[1]]))

\* C30: the UI polls the progress of job 1 while the render thread has not
\* yet received it; total is 0 and progress() is 0.0 / 0.0
C30_Witness ==
    /\ PollsProgress
    /\ render_progress = Some(1)
    /\ wpc = "recv"
    /\ job_q # <<>>
    /\ progress[1] = RenderProgressState_new
    /\ IsNaN(RenderProgressState_progress(progress[1]))

\* C30: the UI polls the progress of a job that has called init and ticked
C30_WitnessRendering ==
    /\ PollsProgress
    /\ wpc = "render"
    /\ job[1].id = render_progress[1]
    /\ progress[render_progress[1]].current > 0
    /\ Interval_contains(Interval_new(Zero, One),
                         RenderProgressState_progress(progress[render_progress[1]]))

(***************************************************************************)
(* Claims about the geometry.                                              *)
(***************************************************************************)
Members == 1..Len(world.objects)

Padded(box) ==
    \A axis \in Axes : QLe(PadDelta, Interval_size(axis_interval(box, axis)))

RECURSIVE NodeBoxes(_)
NodeBoxes(obj) ==
    IF obj.kind = "bvh"
    THEN {obj.bbox} \cup NodeBoxes(obj.left) \cup NodeBoxes(obj.right)
    ELSE {obj.bbox}

\* C1 (as claimed): for every world, ray and interval, BVHNode::hit on the tree
\* built by from_slice and HittableList::hit over the same primitives agree:
\* both miss, or both hit with the same t and the same material.
C1_BvhMatchesList ==
    gpc = "cast" =>
        /\ IsSome(rec_bvh) <=> IsSome(rec_list)
        /\ IsSome(rec_bvh) /\ IsSome(rec_list) =>
              /\ rec_bvh[1].t = rec_list[1].t
              /\ rec_bvh[1].mat = rec_list[1].mat

C3_HitImpliesBoxHit ==
    gpc = "cast" =>
        \A i \in Members : IsSome(prim_recs[i]) => box_hits[i]

MaxDepth == 2

Negative == V(-1, -1, -1)

ColorTextureTables ==
    { << <<"t1", x>>, <<"t2", y>> >> :
        x \in { TextureSpec_SolidColor(Grey), TextureSpec_SolidColor(Negative),
                TextureSpec_Perlin(I(1)), TextureSpec_Image("earth.png") },
        y \in { TextureSpec_SolidColor(Red), TextureSpec_Checker(I(1), "t1", "t1") } }

ColorMaterialTables ==
    { << <<"m1", a>> >> :
        a \in { MaterialSpec_Lambertian("t1"), MaterialSpec_Lambertian("t2"),
                MaterialSpec_Metal(Grey, I(0)), MaterialSpec_Metal(Negative, I(0)),
                MaterialSpec_Metal(Grey, I(1)), MaterialSpec_Dielectric(Q(3, 2)) } }

\* a unit sphere at the origin, alone or in front of a wall at z = -2
ColorShapeLists ==
    { <<ShapeSpec_Circle(I(1), Ray_new(V(0, 0, 0), V(0, 0, 0)), "m1")>>,
      <<ShapeSpec_Circle(I(1), Ray_new(V(0, 0, 0), V(0, 0, 0)), "m1"),
        ShapeSpec_Quad(V(-2, -2, -2), V(4, 0, 0), V(0, 4, 0), "m1")>> }

ColorSceneFiles ==
    { [textures |-> t, materials |-> m, shapes |-> sh] :
        t \in ColorTextureTables, m \in ColorMaterialTables, sh \in ColorShapeLists }

ColorRays ==
    RaysFrom({V(0, 0, 2), V(0, 0, 0)}, {V(0, 0, -1), V(0, 0, 1), V(0, 1, 0)})

\* what rand, f64::sin and the image supply to one scatter
Envs ==
    { [rnd |-> V(0, 0, 1), random |-> Zero, sin |-> One, pixel |-> <<255, 128, 0>>],
      [rnd |-> V(0, 1, 0), random |-> Q(1, 2), sin |-> I(-1), pixel |-> <<0, 0, 0>>],
      [rnd |-> V(0, 0, -1), random |-> Q(1, 2), sin |-> Zero, pixel |-> <<255, 255, 255>>] }

\* the scatters whose square roots the model represents exactly; a
\* Dielectric is met head-on (cos_theta = 1)
ExactScatter(mat, r, rec) ==
    IF mat.kind = "lambertian" THEN TRUE
    ELSE IF mat.kind = "metal" THEN HasSqrt(length_squared(reflect(r.dir, rec.normal)))
    ELSE /\ HasSqrt(length_squared(r.dir))
         /\ dot(VNeg(unit_vector(r.dir)), rec.normal) = One

\* the calls of ray_color all of whose square roots the model represents exactly
RECURSIVE ExactPath(_, _, _, _)
ExactScattered(depth, world_, envs, scatter) ==
    IsSome(scatter) => ExactPath(scatter[1].scattered, depth - 1, world_, envs)

ExactHit(r, depth, world_, envs, rec) ==
    IF IsSome(rec)
    THEN /\ ExactScatter(rec[1].mat, r, rec[1])
         /\ ExactScattered(depth, world_, envs,
                           Material_scatter(rec[1].mat, r, rec[1], envs[depth]))
    ELSE HasSqrt(length_squared(r.dir))

ExactPath(r, depth, world_, envs) ==
    IF depth <= 0 THEN TRUE
    ELSE /\ ExactRoots(world_, r)
         /\ ExactHit(r, depth, world_, envs,
                     HittableList_hit(world_, r, Interval_new(Q(1, 1000), PInf)))

\* let world = scene.into_list()?
LoadScene ==
    /\ scene = None
    /\ \E f \in ColorSceneFiles : scene' = Some(into_list(f).value)
    /\ UNCHANGED <<traced, pixel_color>>
    /\ UNCHANGED nonColorVars

\* self.ray_color(&r, depth, world)
TraceRay ==
    /\ scene # None
    /\ traced = None
    /\ \E r \in ColorRays, depth \in 0..MaxDepth, envs \in [1..MaxDepth -> Envs] :
           /\ ExactPath(r, depth, scene[1], envs)
           /\ traced' = Some([r |-> r, depth |-> depth, envs |-> envs])
           /\ pixel_color' = Some(ray_color(r, depth, scene[1], envs))
    /\ UNCHANGED scene
    /\ UNCHANGED nonColorVars

ColorNext == LoadScene \/ TraceRay

SpecColor == Init /\ [][ColorNext]_vars

(***************************************************************************)
(* Rendering: a camera is built, the workers compute the rows in any       *)
(* order, collect() gathers them, and the header and the pixels are        *)
(* written to a sink any of whose writes may fail.  A failed write leaves  *)
(* nothing in the sink.                                                    *)
(***************************************************************************)
MaxWidth == 3

AspectRatios == {Q(4, 3), One, I(2), I(-1)}

\* the colours ray tracing gives the pixels
Palette ==
    << V(0, 0, 0), V(1, 1, 1), <<Q(1, 4), Q(1, 16), Q(9, 16)>>,
       <<I(4), I(-1), Q(1, 65536)>>, <<QNaN, PInf, NInf>>,
       <<Q(998001, 1000000), Q(65025, 65536), Q(1, 262144)>>,
       <<Q(1, 100), Q(49, 100), Q(81, 100)>> >>

PaletteAt(n) == Palette[(n % Len(Palette)) + 1]

ImageOf(camera_, offset) ==
    [j \in Range(camera_.image_height), i \in Range(camera_.image_width) |->
        PaletteAt(offset + j * camera_.image_width + i)]

\* Camera::builder().image_width(w).aspect_ratio(a).build(), and the start
\* of render
Build ==
    /\ rpc = "idle"
    /\ \E w \in -1..MaxWidth, a \in AspectRatios, offset \in Range(Len(Palette)) :
           /\ camera' = Some(CameraBuilder_build(w, a))
           /\ image' = ImageOf(CameraBuilder_build(w, a), offset)
           /\ rows' = [j \in Range(CameraBuilder_build(w, a).image_height) |-> None]
    /\ rpc' = "compute"
    /\ UNCHANGED <<done, pixels, sink, render_result>>
    /\ UNCHANGED nonRenderVars

\* a worker computes one of the rows not computed yet
ComputeRow ==
    /\ rpc = "compute"
    /\ \E j \in DOMAIN rows :
           /\ rows[j] = None
           /\ rows' = [rows EXCEPT ![j] = Some(render_row(camera[1], image, j))]
           /\ done' = Append(done, j)
    /\ UNCHANGED <<camera, image, pixels, sink, render_result, rpc>>
    /\ UNCHANGED nonRenderVars

\* .collect()
Collect ==
    /\ rpc = "compute"
    /\ \A j \in DOMAIN rows : rows[j] # None
    /\ pixels' = Some(collect(rows, done, camera[1].image_height))
    /\ rpc' = "header"
    /\ UNCHANGED <<camera, image, rows, done, sink, render_result>>
    /\ UNCHANGED nonRenderVars

\* a write failed and render returns Ok(()) all the same
WriteFails_swallowed ==
    /\ render_result' = "Ok"
    /\ rpc' = "done"
    /\ UNCHANGED sink

\* a write failed: `?` returns the error
WriteFails ==
    /\ render_result' = "Err"
    /\ rpc' = "done"
    /\ UNCHANGED sink

\* writeln!(out, "P3\n{} {}\n255", ..)?
WriteHeader ==
    /\ rpc = "header"
    /\ \/ /\ sink' = render_header(camera[1], sink)
          /\ rpc' = "pixels"
          /\ UNCHANGED render_result
       \/ WriteFails
    /\ UNCHANGED <<camera, image, rows, done, pixels>>
    /\ UNCHANGED nonRenderVars

\* pixel.write_color(out)? for the next pixel
WritePixel ==
    /\ rpc = "pixels"
    /\ Len(sink) - 3 < Len(pixels[1])
    /\ \/ /\ sink' = write_color(pixels[1][Len(sink) - 2], sink)
          /\ UNCHANGED <<render_result, rpc>>
       \/ WriteFails
    /\ UNCHANGED <<camera, image, rows, done, pixels>>
    /\ UNCHANGED nonRenderVars

\* Ok(())
Finish ==
    /\ rpc = "pixels"
    /\ Len(sink) - 3 = Len(pixels[1])
    /\ render_result' = "Ok"
    /\ rpc' = "done"
    /\ UNCHANGED <<camera, image, rows, done, pixels, sink>>
    /\ UNCHANGED nonRenderVars

RenderNext == Build \/ ComputeRow \/ Collect \/ WriteHeader \/ WritePixel \/ Finish

SpecRender == Init /\ [][RenderNext]_vars

Count(seq, x) == Cardinality({i \in DOMAIN seq : seq[i] = x})

IsPermutation(a, b) ==
    /\ Len(a) = Len(b)
    /\ \A i \in DOMAIN a : Count(a, a[i]) = Count(b, a[i])

RECURSIVE Leaves(_)
Leaves(obj) ==
    IF obj.kind = "bvh" THEN Leaves(obj.left) \cup Leaves(obj.right) ELSE {obj}

RECURSIVE Nodes(_)
Nodes(obj) ==
    IF obj.kind = "bvh" THEN {obj} \cup Nodes(obj.left) \cup Nodes(obj.right) ELSE {}

\* C17: from_slice on n >= 1 primitives returns; every recursive call is on a
\* non-empty slice shorter than its caller's, of floor(len/2) primitives on the
\* left and len - floor(len/2) on the right, and only slices of 3 or more
\* recurse; the leaves of the tree are the input primitives; every node's box
\* is the union of its two children's boxes
C17_FromSliceSplits ==
    gpc # "build" /\ Len(world.objects) >= 1 =>
        /\ gpc = "built"
        /\ bvh = Some(BVHNode_from_slice(world.objects).node)
        /\ \A c \in BVHNode_from_slice(world.objects).calls :
              /\ c.len >= 3
              /\ c.left = c.len \div 2
              /\ c.right = c.len - c.len \div 2
              /\ c.left >= 1 /\ c.left < c.len
              /\ c.right >= 1 /\ c.right < c.len
        /\ Len(world.objects) >= 3 =>
              \E c \in BVHNode_from_slice(world.objects).calls : c.len = Len(world.objects)
        /\ IsPermutation(BVHNode_from_slice(world.objects).slice, world.objects)
        /\ Leaves(bvh[1]) = {world.objects[i] : i \in Members}
        /\ \A node \in Nodes(bvh[1]) :
              node.bbox = AABB_from_boxes(bounding_box(node.left), bounding_box(node.right))

\* C17: a tree over MaxSlice primitives of three kinds, built with a
\* recursion inside a recursion
C17_Witness ==
    /\ gpc = "built"
    /\ Len(world.objects) = MaxSlice
    /\ Cardinality({world.objects[i] : i \in Members}) >= 3
    /\ Cardinality(BVHNode_from_slice(world.objects).calls) >= 2
    /\ bvh[1].left.kind = "bvh"
    /\ bvh[1].right.kind = "bvh"
    /\ bvh[1].right.right.kind = "bvh"

\* C18 (as claimed): from_slice on a slice of 0, 1 or 2 primitives returns a
\* node whose two children are those primitives, without recursing; a single
\* primitive is both the left and the right child
C18_SmallSlicesDirect ==
    gpc # "build" /\ Len(world.objects) <= 2 =>
        /\ gpc = "built"
        /\ BVHNode_from_slice(world.objects).calls = {}
        /\ Len(world.objects) = 1 =>
              bvh[1].left = world.objects[1] /\ bvh[1].right = world.objects[1]
        /\ Len(world.objects) = 2 =>
              bvh[1].left = world.objects[1] /\ bvh[1].right = world.objects[2]

\* C18 (amended): from_slice on a slice of 1 or 2 primitives returns a node
\* whose two children are those primitives in slice order, without recursing;
\* a single primitive is both the left and the right child.  On an empty slice
\* from_slice recurses without end.
C18_OneOrTwoDirect ==
    /\ gpc # "build" /\ Len(world.objects) \in {1, 2} =>
          /\ gpc = "built"
          /\ BVHNode_from_slice(world.objects).calls = {}
          /\ bvh[1].left = world.objects[1]
          /\ bvh[1].right = world.objects[Len(world.objects)]
    /\ gpc # "build" /\ Len(world.objects) = 0 => gpc = "aborted" /\ bvh = None

\* C18: a node built over two different primitives
C18_Witness ==
    /\ gpc = "built"
    /\ Len(world.objects) = 2
    /\ world.objects[1] # world.objects[2]
    /\ bvh[1].left = world.objects[1]
    /\ bvh[1].right = world.objects[2]

\* the boxes longest_axis is asked about: of a list that is not empty, of its
\* members and of the nodes of the tree
Boxes ==
    (IF world.objects = <<>> THEN {} ELSE {world.bbox})
        \cup {bounding_box(world.objects[i]) : i \in Members}
        \cup (IF bvh = None THEN {} ELSE NodeBoxes(bvh[1]))

AxisSize(box, axis) == Interval_size(axis_interval(box, axis))

MaxAxes(box) == {a \in Axes : \A b \in Axes : QLe(AxisSize(box, b), AxisSize(box, a))}

\* the first of X, Z, Y that is of maximal size
FirstOfXZY(box) == IF 1 \in MaxAxes(box) THEN 1 ELSE IF 3 \in MaxAxes(box) THEN 3 ELSE 2

\* the first of Z, Y, X that is of maximal size
FirstOfZYX(box) == IF 3 \in MaxAxes(box) THEN 3 ELSE IF 2 \in MaxAxes(box) THEN 2 ELSE 1

\* C19 (as claimed): longest_axis returns an axis of maximal size, and among
\* axes equal at the maximum the first of X, Z, Y
C19_TiesXZY ==
    \A box \in Boxes :
        /\ longest_axis(box) \in MaxAxes(box)
        /\ longest_axis(box) = FirstOfXZY(box)

\* C19 (amended): longest_axis returns an axis of maximal size, and among axes
\* equal at the maximum the first of Z, Y, X: Z wins any tie it is part of, Y
\* wins an X/Y tie
C19_TiesZYX ==
    \A box \in Boxes :
        /\ longest_axis(box) \in MaxAxes(box)
        /\ longest_axis(box) = FirstOfZYX(box)

\* C19: boxes with each of the four ties, and one without a tie
C19_Witness ==
    /\ \E box \in Boxes : MaxAxes(box) = {1, 2} /\ longest_axis(box) = 2
    /\ \E box \in Boxes : MaxAxes(box) = {1, 3} /\ longest_axis(box) = 3
    /\ \E box \in Boxes : MaxAxes(box) = {2, 3} /\ longest_axis(box) = 3
    /\ \E box \in Boxes : MaxAxes(box) = {1, 2, 3} /\ longest_axis(box) = 3
    /\ \E box \in Boxes : MaxAxes(box) = {1} /\ longest_axis(box) = 1

\* the left child of node tested on the caller's interval
LeftHit(node) == hit(node.left, ray[1], ray_t)

\* the right child tested on [t_min, t_left], or on [t_min, t_max] if the
\* left child did not hit
RightHit(node) ==
    hit(node.right, ray[1],
        Interval_new(ray_t.min, IF IsSome(LeftHit(node)) THEN LeftHit(node)[1].t ELSE ray_t.max))

\* the hit with the smaller t, the only hit, or none
Closer(l, rr) ==
    IF l = None THEN rr
    ELSE IF rr = None THEN l
    ELSE IF QLt(rr[1].t, l[1].t) THEN rr ELSE l

\* both none, or hits at the same t and point of the same surface
SameHit(a, b) ==
    IF a = None \/ b = None THEN a = None /\ b = None
    ELSE /\ a[1].t = b[1].t
         /\ a[1].p = b[1].p
         /\ a[1].normal = b[1].normal
         /\ a[1].front_face = b[1].front_face
         /\ a[1].mat = b[1].mat

\* C20: BVHNode::hit returns None when the node's box test fails on the
\* caller's interval, whatever the children would report; otherwise it returns
\* the closer of the left child's hit on [t_min, t_max] and the right child's
\* hit on [t_min, t_left] ([t_min, t_max] if the left child missed); a
\* returned hit has t within the caller's interval
C20_NodeHit ==
    gpc = "cast" =>
        \A node \in Nodes(bvh[1]) :
            /\ SameHit(BVHNode_hit(node, ray[1], ray_t),
                       IF AABB_hit(node.bbox, ray[1], ray_t)
                       THEN Closer(LeftHit(node), RightHit(node))
                       ELSE None)
            /\ IsSome(BVHNode_hit(node, ray[1], ray_t)) =>
                  /\ QLe(ray_t.min, BVHNode_hit(node, ray[1], ray_t)[1].t)
                  /\ QLe(BVHNode_hit(node, ray[1], ray_t)[1].t, ray_t.max)

\* C20: the box test of the root passes, both children are hit on the
\* caller's interval, and the hit returned is the right child's, closer than
\* the left child's
C20_Witness ==
    /\ gpc = "cast"
    /\ AABB_hit(bvh[1].bbox, ray[1], ray_t)
    /\ IsSome(LeftHit(bvh[1]))
    /\ IsSome(RightHit(bvh[1]))
    /\ IsSome(rec_bvh)
    /\ QLt(rec_bvh[1].t, LeftHit(bvh[1])[1].t)
    /\ SameHit(rec_bvh, RightHit(bvh[1]))

\* what each member of list reports on the caller's interval
Reports(list) == [i \in DOMAIN list.objects |-> hit(list.objects[i], ray[1], ray_t)]

\* rec is none exactly when every report is none, and otherwise is one of the
\* reports, with t not above the t of any report
NearestOf(rec, reports) ==
    /\ rec = None <=> \A i \in DOMAIN reports : reports[i] = None
    /\ IsSome(rec) =>
          /\ \E i \in DOMAIN reports : SameHit(reports[i], rec)
          /\ \A i \in DOMAIN reports :
                IsSome(reports[i]) => QLe(rec[1].t, reports[i][1].t)

\* a list whose members are the tree and the list of the primitives
Nested == HittableList_add(HittableList_add(HittableList_default, bvh[1]), world)

\* C21: HittableList::hit returns no hit exactly when no member reports a hit
\* in the caller's interval, and otherwise a member's hit with t not above
\* the t of any hit a member reports; the same holds for a list whose
\* members are a BVH node and a list
C21_ListNearest ==
    gpc = "cast" =>
        /\ prim_recs = Reports(world)
        /\ NearestOf(rec_list, prim_recs)
        /\ NearestOf(HittableList_hit(Nested, ray[1], ray_t), Reports(Nested))

\* C21: three members are hit, the first of them not the nearest, and the
\* list returns a hit closer than the first member's
C21_Witness ==
    /\ gpc = "cast"
    /\ Len(world.objects) = 3
    /\ \A i \in Members : IsSome(prim_recs[i])
    /\ QLt(rec_list[1].t, prim_recs[1][1].t)
    /\ NearestOf(rec_list, prim_recs)

\* the spheres among the members of world
Spheres == {i \in Members : world.objects[i].kind = "sphere"}

\* oc, a, h of Sphere::hit for the cast ray
SphereOc(s) == VSub(Ray_at(s.center, ray[1].tm), ray[1].orig)

SphereA == length_squared(ray[1].dir)

SphereH(s) == dot(ray[1].dir, SphereOc(s))

SmallerRoot(s) == QDiv(QSub(SphereH(s), QSqrt(Sphere_discriminant(s, ray[1]))), SphereA)

LargerRoot(s) == QDiv(QAdd(SphereH(s), QSqrt(Sphere_discriminant(s, ray[1]))), SphereA)

\* t_min < t < t_max
StrictlyInside(t) == QLt(ray_t.min, t) /\ QLt(t, ray_t.max)

\* the t Sphere::hit is to return for s, as an Option
ExpectedRoot(s) ==
    IF QLt(Sphere_discriminant(s, ray[1]), Zero) THEN None
    ELSE IF StrictlyInside(SmallerRoot(s)) THEN Some(SmallerRoot(s))
    ELSE IF StrictlyInside(LargerRoot(s)) THEN Some(LargerRoot(s))
    ELSE None

\* C22: Sphere::hit reports no hit when the discriminant is negative;
\* otherwise it returns the smaller root if that lies strictly inside the
\* caller's interval, else the larger root if that one does, else no hit; a
\* returned t is never t_min or t_max
C22_SphereRoots ==
    gpc = "cast" =>
        \A i \in Spheres :
            /\ IsSome(prim_recs[i]) <=> IsSome(ExpectedRoot(world.objects[i]))
            /\ IsSome(prim_recs[i]) =>
                  /\ prim_recs[i][1].t = ExpectedRoot(world.objects[i])[1]
                  /\ prim_recs[i][1].t # ray_t.min
                  /\ prim_recs[i][1].t # ray_t.max

\* C22: the ray starts inside the sphere, the smaller root is below t_min and
\* the larger root is returned
C22_Witness ==
    /\ gpc = "cast"
    /\ \E i \in Spheres :
          /\ QLt(SmallerRoot(world.objects[i]), ray_t.min)
          /\ IsSome(prim_recs[i])
          /\ prim_recs[i][1].t = LargerRoot(world.objects[i])

\* C22: the smaller root is exactly t_max and the larger root beyond it: no
\* hit is reported
C22_WitnessEndpoint ==
    /\ gpc = "cast"
    /\ \E i \in Spheres :
          /\ SmallerRoot(world.objects[i]) = ray_t.max
          /\ prim_recs[i] = None

\* widths and heights of decoded images
ImageSizes == {<<1, 1>>, <<2, 3>>, <<4, 2>>}

\* the hits of quads: the records whose u and v Quad::hit computes
QuadHits ==
    {prim_recs[i][1] : i \in {k \in DOMAIN prim_recs :
                                 IsSome(prim_recs[k]) /\ world.objects[k].kind = "quad"}}

\* C28: for the (u, v) of every hit of a quad and every image size, the
\* column and row ImageTexture::value computes are inside the image
C28_LookupInBounds ==
    \A rec \in QuadHits : \A size \in ImageSizes :
        RtwImage_get_pixel_in_bounds(
            ImageTexture_value_clamped(rec.u, rec.v, size[1], size[2]), size[1], size[2])

\* C28: a quad is hit on an edge, u = 1 or v = 0; the row or the column
\* computed for a 2 x 3 image is the height or the width
C28_Witness ==
    \E rec \in QuadHits :
        /\ rec.u = One \/ rec.v = Zero
        /\ ~RtwImage_get_pixel_in_bounds(ImageTexture_value_clamped(rec.u, rec.v, 2, 3), 2, 3)

\* C28: a quad is hit strictly inside, and every lookup is in bounds
C28_WitnessInside ==
    \E rec \in QuadHits :
        /\ QLt(Zero, rec.u) /\ QLt(rec.u, One) /\ QLt(Zero, rec.v) /\ QLt(rec.v, One)
        /\ \A size \in ImageSizes :
              RtwImage_get_pixel_in_bounds(
                  ImageTexture_value_clamped(rec.u, rec.v, size[1], size[2]), size[1], size[2])

\* the quads among the members of world
Quads == {i \in Members : world.objects[i].kind = "quad"}

\* the cast ray runs parallel to the plane of quad: its direction is
\* orthogonal to n = u x v
ParallelTo(quad) == dot(cross(quad.u, quad.v), ray[1].dir) = Zero

\* C12: a ray whose direction is orthogonal to the normal of a Quad gets no
\* hit from Quad::hit, whatever its origin (in the plane of the quad or not)
\* and whatever the interval.
C12_ParallelRayMisses ==
    gpc = "cast" => \A i \in Quads : ParallelTo(world.objects[i]) => prim_recs[i] = None

\* C12: a ray that lies in the plane of a quad and crosses it was cast with
\* an interval unbounded above
C12_Witness ==
    /\ gpc = "cast"
    /\ ray_t.max = PInf
    /\ \E i \in Quads :
           /\ ParallelTo(world.objects[i])
           /\ world.objects[i].q = V(0, 0, 0)
           /\ world.objects[i].normal = V(0, 0, 1)
           /\ ray[1].orig = V(-1, 0, 0)
           /\ ray[1].dir = V(1, 0, 0)
           /\ prim_recs[i] = None

(***************************************************************************)
(* Claims about the loader.                                                *)
(***************************************************************************)
Names(table) == {table[i][1] : i \in 1..Len(table)}

\* the material names a shape spec, or one nested in it, refers to
RECURSIVE MaterialRefs(_)
MaterialRefs(spec) ==
    IF spec.kind \in {"Circle", "Quad"} THEN {spec.material}
    ELSE IF spec.kind = "List"
    THEN UNION {MaterialRefs(spec.shape_specs[i]) : i \in 1..Len(spec.shape_specs)}
    ELSE MaterialRefs(spec.left) \cup MaterialRefs(spec.right)

ShapeDangles(f) ==
    \E i \in 1..Len(f.shapes) : \E name \in MaterialRefs(f.shapes[i]) :
        name \notin Names(f.materials)

LambertianDangles(f) ==
    \E i \in 1..Len(f.materials) :
        /\ f.materials[i][2].kind = "Lambertian"
        /\ f.materials[i][2].texture \notin Names(f.textures)

CheckerDangles(f) ==
    \E i \in 1..Len(f.textures) :
        /\ f.textures[i][2].kind = "Checker"
        /\ \E name \in {f.textures[i][2].even, f.textures[i][2].odd} :
               name \notin Names(SubSeq(f.textures, 1, i - 1))

HasDangling(f) == ShapeDangles(f) \/ LambertianDangles(f) \/ CheckerDangles(f)

\* C5: loading a document in which a shape names a material, a Lambertian
\* names a texture, or a checker names a texture that is not defined earlier
\* in its table returns an error value to the caller, and no scene.
C5_DanglingIsErr ==
    (lpc # "idle" /\ loaded # None /\ HasDangling(file[1]))
        => loaded[1].outcome = "Err"

\* C27: the document SceneFile::from writes for a loaded scene graph has no
\* shape naming a material outside the materials table, no Lambertian naming
\* a texture outside the textures table, and no checker naming a texture that
\* is not listed before it; loading that document returns Ok.
C27_SavedResolves ==
    /\ lpc \in {"saved", "reloaded"} => ~HasDangling(saved[1])
    /\ lpc = "reloaded" => reloaded[1].outcome = "Ok"

\* C27: a serialized document with a checker in its textures table, a
\* Lambertian in its materials table and two shapes has been loaded again
C27_Witness ==
    /\ lpc = "reloaded"
    /\ \E i \in 1..Len(saved[1].textures) : saved[1].textures[i][2].kind = "Checker"
    /\ \E i \in 1..Len(saved[1].materials) : saved[1].materials[i][2].kind = "Lambertian"
    /\ Len(saved[1].materials) = 2
    /\ Len(saved[1].shapes) = 2

\* a texture, a material, a shape without the names the registry keys them by
RECURSIVE StripTexture(_)
StripTexture(tex) ==
    IF tex.kind = "solid" THEN [kind |-> "solid", albedo |-> tex.albedo]
    ELSE IF tex.kind = "checker"
    THEN [kind |-> "checker", inv_scale |-> tex.inv_scale,
          even |-> StripTexture(tex.even), odd |-> StripTexture(tex.odd)]
    ELSE IF tex.kind = "image" THEN [kind |-> "image", path |-> tex.path]
    ELSE tex

StripMaterial(mat) ==
    IF mat.kind = "lambertian" THEN [kind |-> "lambertian", tex |-> StripTexture(mat.tex)]
    ELSE IF mat.kind = "metal"
    THEN [kind |-> "metal", albedo |-> mat.albedo, fuzz |-> mat.fuzz]
    ELSE [kind |-> "dielectric", refraction_index |-> mat.refraction_index]

RECURSIVE StripShape(_)
StripShape(obj) ==
    IF obj.kind \in {"sphere", "quad"} THEN [obj EXCEPT !.mat = StripMaterial(@)]
    ELSE IF obj.kind = "list"
    THEN [obj EXCEPT !.objects = [i \in 1..Len(obj.objects) |-> StripShape(obj.objects[i])]]
    ELSE [obj EXCEPT !.left = StripShape(@), !.right = StripShape(@)]

\* C6: for every document that loads, serializing the scene graph with
\* SceneFile::from and loading the result gives the same shape tree with the
\* same parameters, each shape bound to a material of the same parameters.
C6_RoundTripEquivalent ==
    lpc = "reloaded"
        => /\ reloaded[1].outcome = "Ok"
           /\ StripShape(reloaded[1].value) = StripShape(loaded[1].value)

\* the spheres and quads of a shape, in the order to_spec visits them
RECURSIVE Primitives(_)
RECURSIVE PrimitivesFrom(_, _)
PrimitivesFrom(objects, i) ==
    IF i > Len(objects) THEN <<>>
    ELSE Primitives(objects[i]) \o PrimitivesFrom(objects, i + 1)

Primitives(obj) ==
    IF obj.kind \in {"sphere", "quad"} THEN <<obj>>
    ELSE IF obj.kind = "list" THEN PrimitivesFrom(obj.objects, 1)
    ELSE Primitives(obj.left) \o Primitives(obj.right)

UniqueNames(table) ==
    \A i, j \in 1..Len(table) : table[i][1] = table[j][1] => i = j

\* the first of prims whose material is registered under name
FirstNamed(prims, name) ==
    prims[CHOOSE i \in 1..Len(prims) :
            /\ Material_name(prims[i].mat) = name
            /\ \A j \in 1..(i - 1) : Material_name(prims[j].mat) # name]

\* every materials entry is the spec of the first shape registered under its name
FirstKept(f, prims) ==
    \A i \in 1..Len(f.materials) :
        /\ \E k \in 1..Len(prims) : Material_name(prims[k].mat) = f.materials[i][1]
        /\ f.materials[i][2] =
               Material_to_spec(FirstNamed(prims, f.materials[i][1]).mat,
                                ResourceRegistry_default).spec

\* registering any name of the tables again leaves the registry as it is
ReRegisterIsNoOp(registry) ==
    /\ \A i \in 1..Len(registry.materials) :
           register_material(registry, registry.materials[i][1],
                             MaterialSpec_Dielectric(One)) = registry
    /\ \A i \in 1..Len(registry.textures) :
           register_texture(registry, registry.textures[i][1],
                            TextureSpec_Perlin(One)) = registry

\* C7: in every SceneFile made by serializing a scene graph each material
\* name and each texture name occurs once in its table, whatever the number
\* of shapes or materials that refer to it: registering a name already
\* present leaves the registry unchanged, the first registration is kept.
C7_NamesRegisteredOnce ==
    saved # None
        => /\ UniqueNames(saved[1].materials)
           /\ UniqueNames(saved[1].textures)
           /\ FirstKept(saved[1], Primitives(loaded[1].value))
           /\ ReRegisterIsNoOp([materials |-> saved[1].materials,
                                textures |-> saved[1].textures])

\* the metals among the materials of the primitives of the loaded world
LoadedMetals ==
    IF loaded = None THEN {}
    ELSE IF loaded[1].outcome # "Ok" THEN {}
    ELSE {mat \in {Primitives(loaded[1].value)[k].mat :
                         k \in DOMAIN Primitives(loaded[1].value)} : mat.kind = "metal"}

\* C23 (as claimed): whatever fuzz is passed to Metal::new, negative or
\* above 1 or read from a scene document, the fuzz stored lies in [0, 1]
C23_FuzzInUnit ==
    \A mat \in LoadedMetals : QLe(Zero, mat.fuzz) /\ QLe(mat.fuzz, One)

\* C7: a scene graph whose shapes share a material name (and a texture name
\* through two Lambertians) has been serialized
C7_Witness ==
    /\ saved # None
    /\ Len(saved[1].materials) = 1
    /\ Len(saved[1].textures) = 1
    /\ Len(Primitives(loaded[1].value)) >= 2
    /\ \E i, j \in 1..Len(file[1].materials) :
           /\ i # j
           /\ file[1].materials[i][2].kind = "Lambertian"
           /\ file[1].materials[j][2] = file[1].materials[i][2]
           /\ {file[1].materials[i][1], file[1].materials[j][1]}
                  \subseteq UNION {MaterialRefs(file[1].shapes[k]) : k \in 1..Len(file[1].shapes)}


(***************************************************************************)
(* Claims about colours.                                                   *)
(***************************************************************************)
\* C8: for every ray, every bounce depth and every scene that can be built
\* or loaded, each of the three channels of the colour ray_color returns
\* is >= 0.
C8_NonNegativeRadiance ==
    pixel_color # None => \A i \in Axes : QLe(Zero, pixel_color[1][i])


\* world.hit(r, Interval::new(0.001, f64::INFINITY)) for the scene
HitOf(r) == HittableList_hit(scene[1], r, Interval_new(Q(1, 1000), PInf))

\* rec.mat.scatter(r, &rec) of the call with depth d
ScatterOf(r, d) == Material_scatter(HitOf(r)[1].mat, r, HitOf(r)[1], traced[1].envs[d])

\* the call with depth d hits a surface that scatters
Scatters(r, d) ==
    IF d <= 0 THEN FALSE
    ELSE IF HitOf(r) = None THEN FALSE
    ELSE IsSome(ScatterOf(r, d))

\* Called(d): the traced call recurses down to a call with depth d, whose ray
\* is PathRay(d)
RECURSIVE Called(_)
RECURSIVE PathRay(_)
Called(d) ==
    IF d = traced[1].depth THEN TRUE
    ELSE IF d > traced[1].depth THEN FALSE
    ELSE IF Called(d + 1) THEN Scatters(PathRay(d + 1), d + 1) ELSE FALSE

PathRay(d) ==
    IF d = traced[1].depth THEN traced[1].r
    ELSE ScatterOf(PathRay(d + 1), d + 1)[1].scattered

\* what the call ray_color(r, d, world) is to return
ClaimedColor(r, d) ==
    IF d <= 0 THEN Vec3_ZERO
    ELSE IF HitOf(r) = None THEN ray_color_sky(unit_vector(r.dir))
    ELSE IF ScatterOf(r, d) = None THEN Vec3_ZERO
    ELSE VMul(ScatterOf(r, d)[1].attenuation,
              ray_color(ScatterOf(r, d)[1].scattered, d - 1, scene[1], traced[1].envs))

\* C24: ray_color returns black when depth <= 0, black when the material of
\* the nearest hit absorbs, the sky gradient when nothing is hit, and
\* attenuation * ray_color(scattered, depth - 1) when the material scatters,
\* in the traced call and in every call it recurses to; the depths of the
\* calls decrease by one down to 0 at most, and a path that scatters depth
\* times is black
C24_RayColorCases ==
    traced # None =>
        /\ pixel_color = Some(ClaimedColor(traced[1].r, traced[1].depth))
        /\ \A d \in 0..(traced[1].depth - 1) :
              Called(d) =>
                  ray_color(PathRay(d), d, scene[1], traced[1].envs) = ClaimedColor(PathRay(d), d)
        /\ \A d \in 0..traced[1].depth : Scatters(PathRay(traced[1].depth), d) => d >= 1
        /\ Called(0) => pixel_color = Some(Vec3_ZERO)

\* C24: a path scattered MaxDepth times by surfaces that are not black: the
\* call with depth 0 returns black, and so does the traced call
C24_Witness ==
    /\ traced # None
    /\ traced[1].depth = MaxDepth
    /\ Called(0)
    /\ \A d \in 1..MaxDepth :
          \A i \in Axes : QLt(Zero, ScatterOf(PathRay(d), d)[1].attenuation[i])
    /\ pixel_color = Some(Vec3_ZERO)

\* C24: the first hit scatters and the scattered ray leaves into the sky:
\* the colour is the attenuation times the gradient
C24_WitnessSky ==
    /\ traced # None
    /\ traced[1].depth = MaxDepth
    /\ Called(MaxDepth - 1)
    /\ HitOf(PathRay(MaxDepth - 1)) = None
    /\ pixel_color # Some(Vec3_ZERO)

(***************************************************************************)
(* Claims about rendering.                                                 *)
(***************************************************************************)
\* the pixel lines written so far, numbered from 1
PixelLines == 1..(Len(sink) - 3)

\* floor(256 * clamp(g(c), 0, 0.999)), g(c) = sqrt(c) for c > 0 and 0
\* otherwise, in integer arithmetic: 255 from sqrt(c) >= 255/256 on
ExpectedByte(c) ==
    IF IsNaN(c) \/ ~QLt(Zero, c) THEN 0
    ELSE IF c = PInf \/ QLe(Q(65025, 65536), c) THEN 255
    ELSE ISqrt((65536 * c[1]) \div c[2])

ExpectedLine(color) ==
    write_color_line(<<ExpectedByte(color[1]), ExpectedByte(color[2]),
                       ExpectedByte(color[3])>>)

\* C9: write_color emits for each channel c the integer
\* floor(256 * clamp(g(c), 0, 0.999)), g(c) = sqrt(c) for c > 0 and 0
\* otherwise: an integer in 0..255; black is written as "0 0 0" and the
\* colour with all channels 1.0 as "255 255 255".
C9_WriteColorQuantizes ==
    \A k \in PixelLines :
        /\ \A i \in Axes : write_color_bytes(pixels[1][k])[i] \in 0..255
        /\ sink[k + 3] = ExpectedLine(pixels[1][k])
        /\ pixels[1][k] = V(0, 0, 0) => sink[k + 3] = "0 0 0"
        /\ pixels[1][k] = V(1, 1, 1) => sink[k + 3] = "255 255 255"

\* C9: black, white and a colour of NaN and infinite channels were written
C9_Witness ==
    /\ render_result = "Ok"
    /\ \E k \in PixelLines : pixels[1][k] = V(0, 0, 0) /\ sink[k + 3] = "0 0 0"
    /\ \E k \in PixelLines : pixels[1][k] = V(1, 1, 1) /\ sink[k + 3] = "255 255 255"
    /\ \E k \in PixelLines : pixels[1][k] = <<QNaN, PInf, NInf>> /\ sink[k + 3] = "0 255 0"

\* max(1, floor(image_width / aspect_ratio))
ClaimedHeight(camera_) ==
    i32_max(1, QFloor(QDiv(I(camera_.image_width), camera_.aspect_ratio))[1])

\* C10: a successful render writes the lines "P3", "<image_width>
\* <image_height>", "255" and then exactly image_width * image_height pixel
\* lines, image_height = max(1, floor(image_width / aspect_ratio)), and
\* nothing else.
C10_RenderOutput ==
    render_result = "Ok"
        => /\ SubSeq(sink, 1, 3) =
                  <<"P3",
                    ToString(camera[1].image_width) \o " "
                        \o ToString(camera[1].image_height),
                    "255">>
           /\ camera[1].image_height = ClaimedHeight(camera[1])
           /\ Len(sink) - 3 = camera[1].image_width * camera[1].image_height
           /\ \A k \in PixelLines : sink[k + 3] = write_color_line(write_color_bytes(pixels[1][k]))

\* the header and every pixel line are in the sink
AllWritten ==
    /\ Len(sink) >= 3
    /\ SubSeq(sink, 1, 3) = render_header(camera[1], <<>>)
    /\ Len(sink) - 3 = Len(pixels[1])

\* render returns without having written everything: a write failed
ReturnsEarly == rpc # "done" /\ rpc' = "done" /\ ~AllWritten

\* C16: when a write to the sink fails, on the header or on a pixel line,
\* render returns the error and writes nothing more; it returns Ok only if
\* the header and every pixel line were written
C16_WriteErrorPropagates ==
    /\ [](render_result = "Ok" => AllWritten)
    /\ [](render_result = "Err" => rpc = "done" /\ ~AllWritten)
    /\ [][ReturnsEarly => render_result' = "Err"]_vars
    /\ [][rpc = "done" => sink' = sink]_vars

\* C16: a pixel write failed after the header and some but not all pixel
\* lines were written
C16_Witness ==
    /\ render_result = "Err"
    /\ Len(sink) > 3
    /\ Len(sink) - 3 < Len(pixels[1])

\* C11: the k-th pixel line written (k from 0) is the colour computed for
\* row k div image_width and column k mod image_width, whatever the order
\* in which the workers completed the rows.
C11_PixelOrder ==
    \A k \in 0..(Len(sink) - 4) :
        sink[k + 4] =
            write_color_line(write_color_bytes(
                image[k \div camera[1].image_width, k % camera[1].image_width]))

\* C11: a whole image of several rows and columns was written after the
\* workers completed the rows out of order
C11_Witness ==
    /\ render_result = "Ok"
    /\ camera[1].image_width >= 2
    /\ camera[1].image_height >= 3
    /\ Len(sink) - 3 = camera[1].image_width * camera[1].image_height
    /\ \E a, b \in 1..Len(done) : a < b /\ done[a] > done[b]
    /\ sink[4] # sink[4 + camera[1].image_width]

=============================================================================
